---- MODULE Spec2Model ----
(***************************************************************************)
(* A model of the uitkomst Result / Option library.                        *)
(*                                                                         *)
(* Objects live in a heap (a sequence; an object's identity is its index), *)
(* so that "returns this" and "returns a new instance" are different       *)
(* outcomes.  Callbacks are drawn from small sets and every invocation is  *)
(* logged, so that "the callback is not invoked" is an observable fact.    *)
(***************************************************************************)
EXTENDS Integers, Sequences, FiniteSets, TLC

(***************************************************************************)
(* Bounds of the model.                                                    *)
(***************************************************************************)
\* numbers are 0 .. NumVals-1, arithmetic is modulo NumVals
NumVals == 2
\* Result / Option instances that may be allocated in one run of Spec
MaxObjs == 2

(***************************************************************************)
(* JavaScript values.  Every value is a record with the fields t and n.    *)
(***************************************************************************)
Num(n) == [t |-> "num", n |-> n]
Undefined == [t |-> "undefined", n |-> 0]
NaN == [t |-> "NaN", n |-> 0]
Null == [t |-> "null", n |-> 0]
\* a reference to the Result instance heap[i]
Ref(i) == [t |-> "ref", n |-> i]
\* a reference to the Option instance opts[i]
ORef(i) == [t |-> "oref", n |-> i]
\* a reference to the AsyncResult handles[h]
ARef(h) == [t |-> "async", n |-> h]
\* a reference to the plain Promise handles[h]
PRef(h) == [t |-> "promise", n |-> h]
\* an array
List(items) == [t |-> "list", n |-> Len(items), items |-> items]

Numbers == {Num(n) : n \in 0 .. NumVals - 1}
\* the payloads the constructors are called with; Undefined is the
\* zero-argument form
Payloads == Numbers \cup {Undefined}
Tags == {"t1", "t2"}

(***************************************************************************)
(* Callbacks.  A plain callback is a sequence of primitive functions,      *)
(* <<f>> is f and <<f, g>> is x => g(f(x)).  A Result-returning callback   *)
(* is mkOk (x => Ok(f(x))), mkErr (x => Err(f(x))) or const (() => r for a *)
(* captured Result r).                                                     *)
(***************************************************************************)
Prims == {"id", "inc", "dbl"}

ApplyPrim(f, v) ==
  IF f = "id" THEN v
  ELSE IF v.t # "num" THEN NaN
  ELSE IF f = "inc" THEN Num((v.n + 1) % NumVals)
  ELSE Num((2 * v.n) % NumVals)

RECURSIVE ApplySeq(_, _)
ApplySeq(fs, v) ==
  IF fs = <<>> THEN v ELSE ApplySeq(Tail(fs), ApplyPrim(Head(fs), v))

CB(k, f, id) == [k |-> k, f |-> f, id |-> id]
Fn(f) == CB("fn", <<f>>, 0)
PlainCallbacks == {Fn(f) : f \in {"inc", "dbl"}}
NoCallback == CB("none", <<>>, 0)

\* the log entries of one invocation of the plain callback fs with v: one
\* entry per primitive, in call order
RECURSIVE LogSeq(_, _)
LogSeq(fs, v) ==
  IF fs = <<>> THEN <<>>
  ELSE <<[cb |-> Fn(Head(fs)), arg |-> v]>>
         \o LogSeq(Tail(fs), ApplyPrim(Head(fs), v))

(***************************************************************************)
(* State.                                                                  *)
(***************************************************************************)
VARIABLES
  heap,    \* the Result instances: [cls, ok, err, val, stack]
  stacks,  \* the Trace[] arrays; an Err's stack field indexes this
  opts,    \* the Option instances: [cls, some, none, val]; opts[1] is None
  last,    \* the last operation: what was called, on what, what it
           \* returned and which callbacks it invoked
  pc,      \* the position of a calling program
  input,   \* the inputs the calling program was started with
  regs,    \* the local variables of the calling program
  handles, \* the promises: [cls, state, value, will, at]
  tasks    \* the continuations waiting on a Promise.all

vars == <<heap, stacks, opts, last, pc, input, regs, handles, tasks>>
progVars == <<pc, input, regs>>
asyncVars == <<handles, tasks>>

\* the memory the Result methods read and write
Mem(h, s) == [heap |-> h, stacks |-> s]

\* what a call does: the memory after it, the value it returns, the
\* callback invocations it made, the error it threw ("" for none)
Outcome(m, ret, calls, threw) ==
  [mem |-> m, ret |-> ret, calls |-> calls, threw |-> threw]

(***************************************************************************)
(* class Ok / class Err: construction.                                     *)
(***************************************************************************)
\* new Ok(val): ok = true, err = false.  The Ok's own _stack is an empty
\* array no method of Ok reads or hands out; it is written 0.
NewOk(val) == [cls |-> "Ok", ok |-> TRUE, err |-> FALSE, val |-> val, stack |-> 0]

\* NewErr with the discriminant ok left true
NewErr_okTrue(val, stack) ==
  [cls |-> "Err", ok |-> TRUE, err |-> TRUE, val |-> val, stack |-> stack]

\* new Err(val, stack): ok = false, err = true; stack is the array given
NewErr(val, stack) ==
  [cls |-> "Err", ok |-> FALSE, err |-> TRUE, val |-> val, stack |-> stack]

\* allocate an Ok holding val
AllocOk(m, val) ==
  [mem |-> Mem(Append(m.heap, NewOk(val)), m.stacks), id |-> Len(m.heap) + 1]

\* new Err(val): the default parameter allocates a fresh empty array
AllocErr(m, val) ==
  [mem |-> Mem(Append(m.heap, NewErr(val, Len(m.stacks) + 1)),
               Append(m.stacks, <<>>)),
   id |-> Len(m.heap) + 1]

\* new Err(val, stack) with an existing array (shared, not copied)
AllocErrWith(m, val, stack) ==
  [mem |-> Mem(Append(m.heap, NewErr(val, stack)), m.stacks),
   id |-> Len(m.heap) + 1]

\* new Err(val, [...old, trace]): a new array
AllocErrTraced(m, val, trace) ==
  [mem |-> Mem(Append(m.heap, NewErr(val, Len(m.stacks) + 1)),
               Append(m.stacks, trace)),
   id |-> Len(m.heap) + 1]

\* the factory functions Ok(value?) and Err(error?): a missing argument is
\* undefined, and both branches construct with the argument
OkFactory(m, arg) ==
  IF arg = Undefined THEN AllocOk(m, Undefined) ELSE AllocOk(m, arg)

ErrFactory(m, arg) ==
  IF arg = Undefined THEN AllocErr(m, Undefined) ELSE AllocErr(m, arg)

(***************************************************************************)
(* class Some / class None.                                                *)
(***************************************************************************)
NewSome(val) == [cls |-> "Some", some |-> TRUE, none |-> FALSE, val |-> val]
\* None: _val = undefined
NewNone == [cls |-> "None", some |-> FALSE, none |-> TRUE, val |-> Undefined]

SomeFactory(o, arg) ==
  IF arg = Undefined THEN Append(o, NewSome(Undefined)) ELSE Append(o, NewSome(arg))

(***************************************************************************)
(* Invoking callbacks.                                                     *)
(***************************************************************************)
\* callback(v) for a plain callback: the value and the log
Invoke(cb, v) == [val |-> ApplySeq(cb.f, v), calls |-> LogSeq(cb.f, v)]

\* callback(v) for a callback meant to return a Result: mkOk and mkErr
\* construct one, const returns the captured instance, raw returns the
\* plain value f(v) (a callback that breaks its contract)
InvokeR(m, cb, v) ==
  LET entry == <<[cb |-> cb, arg |-> v]>>
  IN IF cb.k = "mkOk"
       THEN LET a == AllocOk(m, ApplySeq(cb.f, v))
            IN Outcome(a.mem, Ref(a.id), entry, "")
     ELSE IF cb.k = "mkErr"
       THEN LET a == AllocErr(m, ApplySeq(cb.f, v))
            IN Outcome(a.mem, Ref(a.id), entry, "")
     ELSE IF cb.k = "const"
       THEN Outcome(m, Ref(cb.id), entry, "")
     ELSE Outcome(m, ApplySeq(cb.f, v), entry, "")

\* isResult(x): x instanceof Ok || x instanceof Err
isResult(m, x) == x.t = "ref" /\ x.n \in DOMAIN m.heap

(***************************************************************************)
(* class Ok: the methods.                                                  *)
(***************************************************************************)
Ok_lazyOr(m, self, cb) == Outcome(m, Ref(self), <<>>, "")

\* Ok_map that runs the callback a second time on its own result
Ok_map_twice(m, self, cb) ==
  LET r1 == Invoke(cb, m.heap[self].val)
      r2 == Invoke(cb, r1.val)
      a == AllocOk(m, r2.val)
  IN Outcome(a.mem, Ref(a.id), r1.calls \o r2.calls, "")

Ok_map(m, self, cb) ==
  LET r == Invoke(cb, m.heap[self].val)
      a == AllocOk(m, r.val)
  IN Outcome(a.mem, Ref(a.id), r.calls, "")

Ok_mapErr(m, self, cb) == Outcome(m, Ref(self), <<>>, "")

Ok_or(m, self, fallback) == Outcome(m, Ref(self), <<>>, "")

Ok_replace(m, self, val) ==
  LET a == AllocOk(m, val) IN Outcome(a.mem, Ref(a.id), <<>>, "")

Ok_replaceErr(m, self, val) == Outcome(m, Ref(self), <<>>, "")

Ok_tap(m, self, cb) ==
  Outcome(m, Ref(self), Invoke(cb, m.heap[self].val).calls, "")

Ok_tapErr(m, self, cb) == Outcome(m, Ref(self), <<>>, "")

Ok_trace(m, self, id) == Outcome(m, Ref(self), <<>>, "")

(***************************************************************************)
(* class Err: the methods.                                                 *)
(***************************************************************************)
Err_lazyOr(m, self, cb) == InvokeR(m, cb, Undefined)

\* Err_map that runs the callback on the error, as Ok.map does on the value
Err_map_invokes(m, self, cb) ==
  LET r == Invoke(cb, m.heap[self].val)
      a == AllocErrWith(m, r.val, m.heap[self].stack)
  IN Outcome(a.mem, Ref(a.id), r.calls, "")

Err_map(m, self, cb) == Outcome(m, Ref(self), <<>>, "")

\* mapErr building the new Err with the default, empty _stack
Err_mapErr_freshTrace(m, self, cb) ==
  LET r == Invoke(cb, m.heap[self].val)
      a == AllocErr(m, r.val)
  IN Outcome(a.mem, Ref(a.id), r.calls, "")

\* new Err(callback(this._val), this._stack): the array is shared
Err_mapErr(m, self, cb) ==
  LET r == Invoke(cb, m.heap[self].val)
      a == AllocErrWith(m, r.val, m.heap[self].stack)
  IN Outcome(a.mem, Ref(a.id), r.calls, "")

Err_or(m, self, fallback) == Outcome(m, fallback, <<>>, "")

Err_replace(m, self, val) == Outcome(m, Ref(self), <<>>, "")

\* replaceErr handing the receiver's _stack to the new Err
Err_replaceErr_keepsTrace(m, self, val) ==
  LET a == AllocErrWith(m, val, m.heap[self].stack)
  IN Outcome(a.mem, Ref(a.id), <<>>, "")

\* new Err(val): the _stack parameter takes its default, a new empty array
Err_replaceErr(m, self, val) ==
  LET a == AllocErr(m, val) IN Outcome(a.mem, Ref(a.id), <<>>, "")

Err_tap(m, self, cb) == Outcome(m, Ref(self), <<>>, "")

\* tapErr calling back only when the Err carries no trace
Err_tapErr_untracedOnly(m, self, cb) ==
  IF m.stacks[m.heap[self].stack] = <<>>
  THEN Outcome(m, Ref(self), Invoke(cb, m.heap[self].val).calls, "")
  ELSE Outcome(m, Ref(self), <<>>, "")

Err_tapErr(m, self, cb) ==
  Outcome(m, Ref(self), Invoke(cb, m.heap[self].val).calls, "")

\* trace pushing onto the receiver's own array and returning the receiver
Err_trace_push(m, self, id) ==
  Outcome(Mem(m.heap,
              [m.stacks EXCEPT ![m.heap[self].stack] = Append(@, [id |-> id])]),
          Ref(self), <<>>, "")

\* new Err(this._val, [...this._stack, { id }])
Err_trace(m, self, id) ==
  LET a == AllocErrTraced(m, m.heap[self].val,
                          Append(m.stacks[m.heap[self].stack], [id |-> id]))
  IN Outcome(a.mem, Ref(a.id), <<>>, "")

(***************************************************************************)
(* AbstractResult.try / tryRecover.  The payloads and callback results of  *)
(* this specification are never Promises, so the branches taken are:       *)
(* return this; call the callback; return a Result; throw.                 *)
(***************************************************************************)
\* try without the early return on an Err receiver
AbstractResult_try_noGuard(m, self, cb) ==
  LET res == InvokeR(m, cb, m.heap[self].val)
  IN IF isResult(res.mem, res.ret) THEN res
     ELSE Outcome(res.mem, Undefined, res.calls, "ExpectedResultError")

AbstractResult_try(m, self, cb) ==
  IF m.heap[self].err THEN Outcome(m, Ref(self), <<>>, "")
  ELSE LET res == InvokeR(m, cb, m.heap[self].val)
       IN IF isResult(res.mem, res.ret) THEN res
          ELSE Outcome(res.mem, Undefined, res.calls, "ExpectedResultError")

AbstractResult_tryRecover(m, self, cb) ==
  IF m.heap[self].ok THEN Outcome(m, Ref(self), <<>>, "")
  ELSE LET res == InvokeR(m, cb, m.heap[self].val)
       IN IF isResult(res.mem, res.ret) THEN res
          ELSE Outcome(res.mem, Undefined, res.calls, "ExpectedResultError")

(***************************************************************************)
(* Method dispatch on the receiver's class.                                *)
(***************************************************************************)
IsOkInstance(m, self) == m.heap[self].cls = "Ok"

Call_lazyOr(m, self, cb) ==
  IF IsOkInstance(m, self) THEN Ok_lazyOr(m, self, cb) ELSE Err_lazyOr(m, self, cb)
Call_map(m, self, cb) ==
  IF IsOkInstance(m, self) THEN Ok_map(m, self, cb) ELSE Err_map(m, self, cb)
Call_mapErr(m, self, cb) ==
  IF IsOkInstance(m, self) THEN Ok_mapErr(m, self, cb) ELSE Err_mapErr(m, self, cb)
Call_or(m, self, fb) ==
  IF IsOkInstance(m, self) THEN Ok_or(m, self, fb) ELSE Err_or(m, self, fb)
Call_replace(m, self, v) ==
  IF IsOkInstance(m, self) THEN Ok_replace(m, self, v) ELSE Err_replace(m, self, v)
Call_replaceErr(m, self, v) ==
  IF IsOkInstance(m, self) THEN Ok_replaceErr(m, self, v)
  ELSE Err_replaceErr(m, self, v)
Call_tap(m, self, cb) ==
  IF IsOkInstance(m, self) THEN Ok_tap(m, self, cb) ELSE Err_tap(m, self, cb)
Call_tapErr(m, self, cb) ==
  IF IsOkInstance(m, self) THEN Ok_tapErr(m, self, cb) ELSE Err_tapErr(m, self, cb)
Call_trace(m, self, id) ==
  IF IsOkInstance(m, self) THEN Ok_trace(m, self, id) ELSE Err_trace(m, self, id)

(***************************************************************************)
(* Spec: a caller that constructs Results and Options and calls the        *)
(* methods on any instance it holds, in any order.                         *)
(***************************************************************************)
\* the callbacks handed to lazyOr, try and tryRecover
ResultCallbacks(h) ==
  {CB(k, <<"inc">>, 0) : k \in {"mkOk", "mkErr", "raw"}}
    \cup {CB("const", <<>>, i) : i \in DOMAIN h}

Last(op, recv, cb, arg, out, before) ==
  [op |-> op, recv |-> recv, cb |-> cb, arg |-> arg, ret |-> out.ret,
   calls |-> out.calls, threw |-> out.threw, before |-> before]

\* instances allocated so far (None is a module-level singleton)
Allocated(h, o) == Len(h) + Len(o) - 1

Idle ==
  Last("idle", 0, NoCallback, Undefined,
       Outcome(Mem(<<>>, <<>>), Undefined, <<>>, ""), 0)

\* one method call on heap[self] with outcome out; the caller makes it once
\* it has read the outcome of the call before
Step(op, self, cb, arg, out) ==
  /\ last = Idle
  /\ Allocated(out.mem.heap, opts) <= MaxObjs
  /\ heap' = out.mem.heap
  /\ stacks' = out.mem.stacks
  /\ last' = Last(op, self, cb, arg, out, Len(heap))
  /\ UNCHANGED <<opts, progVars, asyncVars>>

Init ==
  /\ heap = <<>>
  /\ stacks = <<>>
  /\ opts = <<NewNone>>
  /\ last = Idle
  /\ pc = "calls"
  /\ input = <<>>
  /\ regs = <<>>
  /\ handles = <<>>
  /\ tasks = <<>>

Construct(op, arg, a) ==
  Step(op, 0, NoCallback, arg, Outcome(a.mem, Ref(a.id), <<>>, ""))

NewOkStep == \E arg \in Payloads : Construct("Ok", arg, OkFactory(Mem(heap, stacks), arg))

NewErrStep == \E arg \in Payloads : Construct("Err", arg, ErrFactory(Mem(heap, stacks), arg))

NewSomeStep ==
  \E arg \in Payloads :
    /\ last = Idle
    /\ Allocated(heap, opts) < MaxObjs
    /\ opts' = SomeFactory(opts, arg)
    /\ last' = Last("Some", 0, NoCallback, arg,
                    Outcome(Mem(heap, stacks), ORef(Len(opts) + 1), <<>>, ""),
                    Len(heap))
    /\ UNCHANGED <<heap, stacks, progVars, asyncVars>>

MapStep ==
  \E self \in DOMAIN heap, cb \in PlainCallbacks :
    Step("map", self, cb, Undefined, Call_map(Mem(heap, stacks), self, cb))

MapErrStep ==
  \E self \in DOMAIN heap, cb \in PlainCallbacks :
    Step("mapErr", self, cb, Undefined, Call_mapErr(Mem(heap, stacks), self, cb))

OrStep ==
  \E self \in DOMAIN heap, fb \in DOMAIN heap :
    Step("or", self, NoCallback, Ref(fb), Call_or(Mem(heap, stacks), self, Ref(fb)))

LazyOrStep ==
  \E self \in DOMAIN heap, cb \in ResultCallbacks(heap) :
    /\ cb.k # "raw"
    /\ Step("lazyOr", self, cb, Undefined, Call_lazyOr(Mem(heap, stacks), self, cb))

ReplaceStep ==
  \E self \in DOMAIN heap, v \in Payloads :
    Step("replace", self, NoCallback, v, Call_replace(Mem(heap, stacks), self, v))

ReplaceErrStep ==
  \E self \in DOMAIN heap, v \in Payloads :
    Step("replaceErr", self, NoCallback, v,
         Call_replaceErr(Mem(heap, stacks), self, v))

TapStep ==
  \E self \in DOMAIN heap, cb \in PlainCallbacks :
    Step("tap", self, cb, Undefined, Call_tap(Mem(heap, stacks), self, cb))

TapErrStep ==
  \E self \in DOMAIN heap, cb \in PlainCallbacks :
    Step("tapErr", self, cb, Undefined, Call_tapErr(Mem(heap, stacks), self, cb))

TraceStep ==
  \E self \in DOMAIN heap, id \in Tags :
    Step("trace", self, NoCallback, Undefined,
         Call_trace(Mem(heap, stacks), self, id))

TryStep ==
  \E self \in DOMAIN heap, cb \in ResultCallbacks(heap) :
    Step("try", self, cb, Undefined, AbstractResult_try(Mem(heap, stacks), self, cb))

TryRecoverStep ==
  \E self \in DOMAIN heap, cb \in ResultCallbacks(heap) :
    Step("tryRecover", self, cb, Undefined,
         AbstractResult_tryRecover(Mem(heap, stacks), self, cb))

\* the caller has read what the last call returned and which callbacks it
\* invoked, and resets its spies
Observe ==
  /\ last # Idle
  /\ last' = Idle
  /\ UNCHANGED <<heap, stacks, opts, progVars, asyncVars>>

Next ==
  \/ Observe
  \/ NewOkStep
  \/ NewErrStep
  \/ NewSomeStep
  \/ MapStep
  \/ MapErrStep
  \/ OrStep
  \/ LazyOrStep
  \/ ReplaceStep
  \/ ReplaceErrStep
  \/ TapStep
  \/ TapErrStep
  \/ TraceStep
  \/ TryStep
  \/ TryRecoverStep

Spec == Init /\ [][Next]_vars

(***************************************************************************)
(* Properties of Spec.                                                     *)
(***************************************************************************)
Combinators ==
  {"map", "mapErr", "or", "lazyOr", "replace", "replaceErr", "tap", "tapErr",
   "trace", "try", "tryRecover"}

\* what the Result-returning callback cb returned when called with v, given
\* that before instances existed before the call: the captured instance, or
\* a new instance of the right case holding f(v)
ReturnedBy(cb, v, before, ret) ==
  /\ ret.t = "ref"
  /\ ret.n \in DOMAIN heap
  /\ cb.k = "const" => ret.n = cb.id
  /\ cb.k = "mkOk" =>
       ret.n = before + 1 /\ heap[ret.n].ok /\ heap[ret.n].val = ApplySeq(cb.f, v)
  /\ cb.k = "mkErr" =>
       ret.n = before + 1 /\ heap[ret.n].err /\ heap[ret.n].val = ApplySeq(cb.f, v)

\* C1: every Result ever constructed or returned by a combinator has exactly
\* one of ok / err true, every Option exactly one of some / none; a freshly
\* constructed Ok, Err or Some holds exactly the constructor argument
\* (undefined for the zero-argument form) and None holds no payload.
C1_CaseExhaustive ==
  /\ \A i \in DOMAIN heap : heap[i].ok = ~heap[i].err
  /\ \A i \in DOMAIN opts : opts[i].some = ~opts[i].none
  /\ (last.op \in Combinators /\ last.threw = "") =>
       (last.ret.t = "ref" /\ last.ret.n \in DOMAIN heap)
  /\ last.op = "Ok" =>
       (last.ret = Ref(Len(heap)) /\ heap[last.ret.n].ok
          /\ heap[last.ret.n].val = last.arg)
  /\ last.op = "Err" =>
       (last.ret = Ref(Len(heap)) /\ heap[last.ret.n].err
          /\ heap[last.ret.n].val = last.arg)
  /\ last.op = "Some" =>
       (last.ret = ORef(Len(opts)) /\ opts[last.ret.n].some
          /\ opts[last.ret.n].val = last.arg)
  /\ opts[1].none /\ opts[1].val = Undefined

\* an Err made by the zero-argument Err() has been recovered into a new Ok
\* by tryRecover
C1_Witness ==
  /\ last.op = "tryRecover"
  /\ heap[last.recv].err
  /\ heap[last.recv].val = Undefined
  /\ last.ret.t = "ref"
  /\ last.ret.n > last.before
  /\ heap[last.ret.n].ok

\* C2: on an Err, map, replace and tap return the receiver and invoke
\* nothing; on an Ok, mapErr, tapErr, replaceErr, or and lazyOr return the
\* receiver and invoke nothing; Err.or(x) returns x; Err.lazyOr(fn) invokes
\* fn exactly once and returns what it returned.
C2_ShortCircuit ==
  /\ (last.op \in {"map", "replace", "tap"} /\ heap[last.recv].err) =>
       (last.ret = Ref(last.recv) /\ last.calls = <<>> /\ Len(heap) = last.before)
  /\ (last.op \in {"mapErr", "tapErr", "replaceErr", "or", "lazyOr"}
        /\ heap[last.recv].ok) =>
       (last.ret = Ref(last.recv) /\ last.calls = <<>> /\ Len(heap) = last.before)
  /\ (last.op = "or" /\ heap[last.recv].err) =>
       (last.ret = last.arg /\ Len(heap) = last.before)
  /\ (last.op = "lazyOr" /\ heap[last.recv].err) =>
       (/\ last.calls = <<[cb |-> last.cb, arg |-> Undefined]>>
        /\ ReturnedBy(last.cb, Undefined, last.before, last.ret))

\* an Err receiver whose lazyOr ran a callback that built a new Ok
C2_Witness ==
  /\ last.op = "lazyOr"
  /\ heap[last.recv].err
  /\ last.cb.k = "mkOk"
  /\ Len(last.calls) = 1
  /\ heap[last.ret.n].ok

FunctorInit ==
  /\ heap = <<>>
  /\ stacks = <<>>
  /\ opts = <<NewNone>>
  /\ last = Idle
  /\ pc = "start"
  /\ input \in [v : Payloads, f : Prims, g : Prims]
  /\ regs = [o |-> 0, a |-> 0, b |-> 0, c |-> 0, d |-> 0,
             callsA |-> <<>>, callsB |-> <<>>, callsC |-> <<>>, callsD |-> <<>>]
  /\ handles = <<>>
  /\ tasks = <<>>

\* the program's statement at from: call map(cb) on the instance in register
\* on, keep the result in register to and the spy's log in register log
FunctorMap(from, next, on, cb, to, log) ==
  /\ pc = from
  /\ LET out == Call_map(Mem(heap, stacks), regs[on], cb)
     IN /\ heap' = out.mem.heap
        /\ stacks' = out.mem.stacks
        /\ regs' = [regs EXCEPT ![to] = out.ret.n, ![log] = out.calls]
  /\ pc' = next
  /\ UNCHANGED <<opts, last, input, asyncVars>>

FunctorNew ==
  /\ pc = "start"
  /\ LET a == OkFactory(Mem(heap, stacks), input.v)
     IN /\ heap' = a.mem.heap
        /\ stacks' = a.mem.stacks
        /\ regs' = [regs EXCEPT !.o = a.id]
  /\ pc' = "mapF"
  /\ UNCHANGED <<opts, last, input, asyncVars>>

FunctorMapF == FunctorMap("mapF", "mapG", "o", Fn(input.f), "a", "callsA")

FunctorMapG == FunctorMap("mapG", "mapGF", "a", Fn(input.g), "b", "callsB")

FunctorMapGF ==
  FunctorMap("mapGF", "mapId", "o", CB("fn", <<input.f, input.g>>, 0), "c", "callsC")

FunctorMapId == FunctorMap("mapId", "done", "o", Fn("id"), "d", "callsD")

FunctorNext ==
  \/ FunctorNew
  \/ FunctorMapF
  \/ FunctorMapG
  \/ FunctorMapGF
  \/ FunctorMapId

SpecFunctor == FunctorInit /\ [][FunctorNext]_vars

\* C4: Ok(v).map(identity) is an Ok holding v, and Ok(v).map(f).map(g) holds
\* the payload of Ok(v).map(x => g(f(x))), with f and g invoked exactly once
\* each (f with v, g with f(v)) on either route.
C4_FunctorLaws ==
  pc = "done" =>
    LET fv == ApplyPrim(input.f, input.v)
        onceF == [cb |-> Fn(input.f), arg |-> input.v]
        onceG == [cb |-> Fn(input.g), arg |-> fv]
    IN /\ heap[regs.d].ok /\ ~heap[regs.d].err
       /\ heap[regs.d].val = input.v
       /\ heap[regs.b].ok /\ heap[regs.c].ok
       /\ heap[regs.b].val = heap[regs.c].val
       /\ heap[regs.b].val = ApplyPrim(input.g, fv)
       /\ regs.callsA = <<onceF>>
       /\ regs.callsB = <<onceG>>
       /\ regs.callsC = <<onceF, onceG>>
       /\ heap[regs.o].val = input.v

\* the program has finished with f = inc and g = dbl, which do not commute
C4_Witness ==
  /\ pc = "done"
  /\ input.f = "inc"
  /\ input.g = "dbl"
  /\ input.v = Num(1)
  /\ heap[regs.b].val = Num((2 * ((1 + 1) % NumVals)) % NumVals)
  /\ Cardinality({regs.o, regs.a, regs.b, regs.c, regs.d}) = 5

(***************************************************************************)
(* Promises.  An AsyncResult is a Promise of a Result; handles[h] is one   *)
(* promise: its class, its state, the value it was fulfilled with, what    *)
(* its producer will fulfil it with (will) and the rank of its fulfilment  *)
(* among the producers' (at).                                              *)
(***************************************************************************)
NewHandle(cls, will) ==
  [cls |-> cls, state |-> "pending", value |-> Undefined, will |-> will, at |-> 0]

NoWill == [ok |-> FALSE, val |-> Null]

\* resolve(v) with a value that is not a thenable
Fulfil(hs, h, v, at) ==
  [hs EXCEPT ![h] = [@ EXCEPT !.state = "fulfilled", !.value = v, !.at = at]]

\* AsyncResult.ok(val) / AsyncResult.err(val) with val still pending: the
\* executor registers the continuation and returns
AsyncResult_ok(hs, val) ==
  [handles |-> Append(hs, NewHandle("AsyncResult", [ok |-> TRUE, val |-> val])),
   ret |-> ARef(Len(hs) + 1)]

AsyncResult_err(hs, val) ==
  [handles |-> Append(hs, NewHandle("AsyncResult", [ok |-> FALSE, val |-> val])),
   ret |-> ARef(Len(hs) + 1)]

\* AsyncResult.is(res): an AsyncResult, or an array of AsyncResults only
AsyncResult_is(res) ==
  \/ res.t = "async"
  \/ res.t = "list" /\ \A i \in 1 .. res.n : res.items[i].t = "async"

\* results.reduce((is, res) => (!is ? AsyncResult.is(res) : true), false)
RECURSIVE reduceAnyAsync(_, _, _)
reduceAnyAsync(results, i, is) ==
  IF i > Len(results) THEN is
  ELSE reduceAnyAsync(results, i + 1,
                      IF ~is THEN AsyncResult_is(results[i]) ELSE TRUE)

arrayAnyAreAsync(results) == reduceAnyAsync(results, 1, FALSE)

\* may await Promise.all(results) continue: every promise in it is fulfilled
AllResolved(hs, results) ==
  \A i \in 1 .. Len(results) :
    results[i].t = "async" => hs[results[i].n].state = "fulfilled"

\* the elements in the order their producers delivered them
RECURSIVE ByArrival(_, _, _)
ByArrival(hs, results, k) ==
  IF k > Len(hs) THEN <<>>
  ELSE LET here == {i \in 1 .. Len(results) :
                      results[i].t = "async" /\ hs[results[i].n].at = k}
       IN (IF here = {} THEN <<>>
           ELSE <<hs[results[CHOOSE i \in here : TRUE].n].value>>)
          \o ByArrival(hs, results, k + 1)

\* awaitedAll collecting the values as they arrive
awaitedAll_arrivalOrder(hs, results) ==
  SelectSeq(results, LAMBDA r : r.t # "async") \o ByArrival(hs, results, 1)

\* const arr = await Promise.all(results): the fulfilment values by position,
\* a value that is not a promise standing for itself
awaitedAll(hs, results) ==
  [i \in 1 .. Len(results) |->
     IF results[i].t = "async" THEN hs[results[i].n].value ELSE results[i]]

(***************************************************************************)
(* The aggregate functions all, partition, values, errValues.  Each        *)
(* returns the memory and promises after the call, the continuations it    *)
(* left waiting (which, results, out) and its return value.                *)
(***************************************************************************)
AggOut(m, hs, ts, ret) == [mem |-> m, handles |-> hs, tasks |-> ts, ret |-> ret]

Task(fn, results, out) == [fn |-> fn, results |-> results, out |-> out]

\* the asynchronous branch: a new promise of class cls, and the continuation
\* behind await Promise.all(results)
Deferred(m, hs, ts, cls, fn, results) ==
  AggOut(m, Append(hs, NewHandle(cls, NoWill)),
         Append(ts, Task(fn, results, Len(hs) + 1)),
         IF cls = "AsyncResult" THEN ARef(Len(hs) + 1) ELSE PRef(Len(hs) + 1))

\* all keeping the last Err it meets
RECURSIVE all_loop_lastErr(_, _, _, _, _)
all_loop_lastErr(m, results, i, values, seen) ==
  IF i > Len(results)
  THEN IF seen # Undefined THEN [mem |-> m, ret |-> seen]
       ELSE LET a == AllocOk(m, List(values)) IN [mem |-> a.mem, ret |-> Ref(a.id)]
  ELSE LET res == results[i]
       IN IF m.heap[res.n].ok
          THEN all_loop_lastErr(m, results, i + 1,
                                Append(values, m.heap[res.n].val), seen)
          ELSE all_loop_lastErr(m, results, i + 1, values, res)

all_lastErr(m, results, i, values) ==
  all_loop_lastErr(m, results, i, values, Undefined)

\* for (const res of results) if (res.ok) values.push(res._val);
\*                            else return res;
\* return new Ok(values);
RECURSIVE all_loop(_, _, _, _)
all_loop(m, results, i, values) ==
  IF i > Len(results)
  THEN LET a == AllocOk(m, List(values)) IN [mem |-> a.mem, ret |-> Ref(a.id)]
  ELSE LET res == results[i]
       IN IF m.heap[res.n].ok
          THEN all_loop(m, results, i + 1, Append(values, m.heap[res.n].val))
          ELSE [mem |-> m, ret |-> res]

\* all without the test for the empty array, and testing the whole array
\* with AsyncResult.is too, as the earlier version did: an empty array
\* passes that test
all_emptyAsync(m, hs, ts, results) ==
  IF arrayAnyAreAsync(results) \/ AsyncResult_is(List(results))
  THEN Deferred(m, hs, ts, "AsyncResult", "all", results)
  ELSE LET r == all_loop(m, results, 1, <<>>) IN AggOut(r.mem, hs, ts, r.ret)

\* if (results.length === 0) return new Ok([]); then the asynchronous and
\* the synchronous branch
all_(m, hs, ts, results) ==
  IF Len(results) = 0
  THEN LET a == AllocOk(m, List(<<>>)) IN AggOut(a.mem, hs, ts, Ref(a.id))
  ELSE IF arrayAnyAreAsync(results)
  THEN Deferred(m, hs, ts, "AsyncResult", "all", results)
  ELSE LET r == all_loop(m, results, 1, <<>>) IN AggOut(r.mem, hs, ts, r.ret)

\* for (const res of results as Result[]) if (res.ok) arr.push(res.unwrap())
RECURSIVE values_loop(_, _, _, _)
values_loop(m, results, i, arr) ==
  IF i > Len(results) THEN arr
  ELSE LET res == m.heap[results[i].n]
       IN values_loop(m, results, i + 1,
                      IF res.ok THEN Append(arr, res.val) ELSE arr)

\* for (const res of results as Result[]) if (res.err) arr.push(res.unwrapErr())
RECURSIVE errValues_loop(_, _, _, _)
errValues_loop(m, results, i, arr) ==
  IF i > Len(results) THEN arr
  ELSE LET res == m.heap[results[i].n]
       IN errValues_loop(m, results, i + 1,
                         IF res.err THEN Append(arr, res.val) ELSE arr)

\* partition putting each error in front of the earlier ones
RECURSIVE partition_loop_unshift(_, _, _, _, _)
partition_loop_unshift(m, results, i, oks, errs) ==
  IF i > Len(results) THEN List(<<List(oks), List(errs)>>)
  ELSE LET res == m.heap[results[i].n]
       IN IF res.ok
          THEN partition_loop_unshift(m, results, i + 1, Append(oks, res.val), errs)
          ELSE partition_loop_unshift(m, results, i + 1, oks, <<res.val>> \o errs)

\* const pair = [[], []];
\* for (const res of results) if (res.ok) pair[0].push(res.unwrap());
\*                            else pair[1].push(res.unwrapErr());
RECURSIVE partition_loop(_, _, _, _, _)
partition_loop(m, results, i, oks, errs) ==
  IF i > Len(results) THEN List(<<List(oks), List(errs)>>)
  ELSE LET res == m.heap[results[i].n]
       IN IF res.ok
          THEN partition_loop(m, results, i + 1, Append(oks, res.val), errs)
          ELSE partition_loop(m, results, i + 1, oks, Append(errs, res.val))

partition(m, hs, ts, results) ==
  IF Len(results) = 0
  THEN AggOut(m, hs, ts, List(<<List(<<>>), List(<<>>)>>))
  ELSE IF arrayAnyAreAsync(results)
  THEN Deferred(m, hs, ts, "Promise", "partition", results)
  ELSE AggOut(m, hs, ts, partition_loop(m, results, 1, <<>>, <<>>))

values(m, hs, ts, results) ==
  IF arrayAnyAreAsync(results)
  THEN Deferred(m, hs, ts, "Promise", "values", results)
  ELSE AggOut(m, hs, ts, List(values_loop(m, results, 1, <<>>)))

errValues(m, hs, ts, results) ==
  IF arrayAnyAreAsync(results)
  THEN Deferred(m, hs, ts, "Promise", "errValues", results)
  ELSE AggOut(m, hs, ts, List(errValues_loop(m, results, 1, <<>>)))

\* the call the continuation of fn makes once the array is awaited
Recall(fn, m, hs, ts, arr) ==
  CASE fn = "all" -> all_(m, hs, ts, arr)
    [] fn = "partition" -> partition(m, hs, ts, arr)
    [] fn = "values" -> values(m, hs, ts, arr)
    [] fn = "errValues" -> errValues(m, hs, ts, arr)

(***************************************************************************)
(* SpecAgg: a program that builds an array of Results and AsyncResults and *)
(* hands the same array to all, partition, values and errValues, while the *)
(* producers behind the AsyncResults deliver in any order:                 *)
(*   const a = all(results); const p = partition(results);                 *)
(*   const v = values(results); const e = errValues(results);              *)
(* Element i holds the payload i, so that every position is recognisable.  *)
(***************************************************************************)
MaxList == 3

AggInputs ==
  UNION {[1 .. n -> [async : BOOLEAN, ok : BOOLEAN]] : n \in 0 .. MaxList}

\* the array the program builds from the description list: Ok(i), Err(i),
\* AsyncResult.ok(i) or AsyncResult.err(i) at position i
RECURSIVE BuildResults(_, _, _, _, _)
BuildResults(list, i, m, hs, results) ==
  IF i > Len(list) THEN [mem |-> m, handles |-> hs, results |-> results]
  ELSE IF list[i].async
  THEN LET a == IF list[i].ok THEN AsyncResult_ok(hs, Num(i))
                ELSE AsyncResult_err(hs, Num(i))
       IN BuildResults(list, i + 1, m, a.handles, Append(results, a.ret))
  ELSE LET a == IF list[i].ok THEN OkFactory(m, Num(i)) ELSE ErrFactory(m, Num(i))
       IN BuildResults(list, i + 1, a.mem, hs, Append(results, Ref(a.id)))

AggInit ==
  /\ opts = <<NewNone>>
  /\ last = Idle
  /\ pc = "all"
  /\ input \in {[list |-> l] : l \in AggInputs}
  /\ LET b == BuildResults(input.list, 1, Mem(<<>>, <<>>), <<>>, <<>>)
     IN /\ heap = b.mem.heap
        /\ stacks = b.mem.stacks
        /\ handles = b.handles
        /\ regs = [results |-> b.results, all |-> Undefined,
                   partition |-> Undefined, values |-> Undefined,
                   errValues |-> Undefined]
  /\ tasks = <<>>

\* the program's statement at from: call an aggregate function on the array
\* and keep what it returns in register reg
AggCall(from, next, reg, out) ==
  /\ pc = from
  /\ heap' = out.mem.heap
  /\ stacks' = out.mem.stacks
  /\ handles' = out.handles
  /\ tasks' = out.tasks
  /\ regs' = [regs EXCEPT ![reg] = out.ret]
  /\ pc' = next
  /\ UNCHANGED <<opts, last, input>>

CallAll ==
  AggCall("all", "partition", "all",
          all_(Mem(heap, stacks), handles, tasks, regs.results))

CallPartition ==
  AggCall("partition", "values", "partition",
          partition(Mem(heap, stacks), handles, tasks, regs.results))

CallValues ==
  AggCall("values", "errValues", "values",
          values(Mem(heap, stacks), handles, tasks, regs.results))

CallErrValues ==
  AggCall("errValues", "done", "errValues",
          errValues(Mem(heap, stacks), handles, tasks, regs.results))

\* the producer behind an AsyncResult.ok / AsyncResult.err delivers:
\* .then((v) => resolve(new Ok(v))) / .then((v) => resolve(new Err(v)))
ResolveElem ==
  \E h \in DOMAIN handles :
    /\ handles[h].state = "pending"
    /\ handles[h].will # NoWill
    /\ LET a == IF handles[h].will.ok
                THEN AllocOk(Mem(heap, stacks), handles[h].will.val)
                ELSE AllocErr(Mem(heap, stacks), handles[h].will.val)
           rank == 1 + Cardinality({k \in DOMAIN handles : handles[k].at > 0})
       IN /\ heap' = a.mem.heap
          /\ stacks' = a.mem.stacks
          /\ handles' = Fulfil(handles, h, Ref(a.id), rank)
    /\ UNCHANGED <<opts, last, progVars, tasks>>

\* a continuation behind await Promise.all(results) runs: it calls its
\* function again on the awaited array and settles its promise with the
\* value (resolve(all(arr)) / return partition(awaited) / ...)
PromiseAllThen ==
  \E k \in DOMAIN tasks :
    /\ AllResolved(handles, tasks[k].results)
    /\ LET t == tasks[k]
           rest == SubSeq(tasks, 1, k - 1) \o SubSeq(tasks, k + 1, Len(tasks))
           arr == awaitedAll(handles, t.results)
           out == Recall(t.fn, Mem(heap, stacks), handles, rest, arr)
       IN /\ heap' = out.mem.heap
          /\ stacks' = out.mem.stacks
          /\ handles' = Fulfil(out.handles, t.out, out.ret, 0)
          /\ tasks' = out.tasks
    /\ UNCHANGED <<opts, last, progVars>>

AggNext ==
  \/ CallAll
  \/ CallPartition
  \/ CallValues
  \/ CallErrValues
  \/ ResolveElem
  \/ PromiseAllThen

SpecAgg == AggInit /\ [][AggNext]_vars

\* the positions of the array, the value position i resolved to, and what
\* a returned value delivers once it is there
Positions == 1 .. Len(input.list)
AnyAsync == \E i \in Positions : input.list[i].async
ResolvedAt(i) ==
  IF input.list[i].async THEN handles[regs.results[i].n].value ELSE regs.results[i]
Ready(x) == x.t \in {"promise", "async"} => handles[x.n].state = "fulfilled"
Got(x) == IF x.t \in {"promise", "async"} THEN handles[x.n].value ELSE x

\* r is what the synchronous rule of all gives for the array: an Ok of the
\* payloads by position, or the first Err by position
AllRule(r) ==
  /\ r.t = "ref"
  /\ IF \A i \in Positions : input.list[i].ok
     THEN /\ heap[r.n].ok
          /\ ~heap[r.n].err
          /\ heap[r.n].val = List([i \in Positions |-> Num(i)])
     ELSE LET first == CHOOSE i \in Positions :
                         /\ ~input.list[i].ok
                         /\ \A j \in 1 .. i - 1 : input.list[j].ok
          IN /\ r = ResolvedAt(first)
             /\ heap[r.n].err
             /\ heap[r.n].val = Num(first)

\* x is the array of the payloads of the Ok (want) or Err (~want) elements,
\* in the order of their positions
PickedInOrder(x, want) ==
  /\ x.t = "list"
  /\ x.n = Len(x.items)
  /\ {x.items[k] : k \in 1 .. x.n} =
       {Num(i) : i \in {j \in Positions : input.list[j].ok = want}}
  /\ \A j, k \in 1 .. x.n : j < k => x.items[j].n < x.items[k].n

\* C5: for an array of synchronous Results all returns, at once, an Ok
\* holding the payloads in input order when every element is Ok, and
\* otherwise the very Err instance with the smallest index.
C5_AllSync ==
  (pc \in {"partition", "values", "errValues", "done"} /\ ~AnyAsync) =>
    /\ AllRule(regs.all)
    /\ tasks = <<>>

\* all was called on [Ok(1), Err(2), Err(3)] and returned the Err at 2
C5_Witness ==
  /\ pc = "done"
  /\ input.list = <<[async |-> FALSE, ok |-> TRUE], [async |-> FALSE, ok |-> FALSE],
                    [async |-> FALSE, ok |-> FALSE]>>
  /\ regs.all = regs.results[2]
  /\ heap[regs.all.n].val = Num(2)

\* C6: for an array with at least one AsyncResult all returns an
\* AsyncResult, which is fulfilled only once every element is fulfilled,
\* and then with what the synchronous rule gives for the elements' resolved
\* Results taken by position, in whatever order they were delivered.
C6_AllAsync ==
  (pc \in {"partition", "values", "errValues", "done"} /\ AnyAsync) =>
    /\ regs.all.t = "async"
    /\ handles[regs.all.n].cls = "AsyncResult"
    /\ handles[regs.all.n].state = "fulfilled" =>
         /\ AllResolved(handles, regs.results)
         /\ AllRule(handles[regs.all.n].value)

\* all([AsyncResult.err(1), Ok(2), AsyncResult.err(3)]) is fulfilled with
\* the Err of position 1 although position 3 was delivered first
C6_Witness ==
  /\ input.list = <<[async |-> TRUE, ok |-> FALSE], [async |-> FALSE, ok |-> TRUE],
                    [async |-> TRUE, ok |-> FALSE]>>
  /\ regs.all.t = "async"
  /\ handles[regs.all.n].state = "fulfilled"
  /\ handles[regs.results[3].n].at = 1
  /\ handles[regs.results[1].n].at = 2
  /\ heap[handles[regs.all.n].value.n].val = Num(1)

\* C7: partition returns the pair (payloads of the Ok elements, payloads of
\* the Err elements), each in input order; values gives the first
\* component and errValues the second; for an array with an AsyncResult the
\* three are promises that deliver the same pair and arrays.
C7_PartitionOrder ==
  /\ pc \in {"values", "errValues", "done"} =>
       /\ regs.partition.t = (IF AnyAsync THEN "promise" ELSE "list")
       /\ Ready(regs.partition) =>
            LET pair == Got(regs.partition)
            IN /\ pair.t = "list"
               /\ pair.n = 2
               /\ Len(pair.items) = 2
               /\ PickedInOrder(pair.items[1], TRUE)
               /\ PickedInOrder(pair.items[2], FALSE)
  /\ pc \in {"errValues", "done"} =>
       /\ regs.values.t = (IF AnyAsync THEN "promise" ELSE "list")
       /\ Ready(regs.values) => PickedInOrder(Got(regs.values), TRUE)
  /\ pc = "done" =>
       /\ regs.errValues.t = (IF AnyAsync THEN "promise" ELSE "list")
       /\ Ready(regs.errValues) => PickedInOrder(Got(regs.errValues), FALSE)
       /\ (Ready(regs.partition) /\ Ready(regs.values) /\ Ready(regs.errValues)) =>
            /\ Got(regs.values) = Got(regs.partition).items[1]
            /\ Got(regs.errValues) = Got(regs.partition).items[2]

\* partition([AsyncResult.err(1), Ok(2), AsyncResult.err(3)]) has delivered
\* ([2], [1, 3]) although position 3 was delivered first, and values and
\* errValues have delivered too
C7_Witness ==
  /\ pc = "done"
  /\ input.list = <<[async |-> TRUE, ok |-> FALSE], [async |-> FALSE, ok |-> TRUE],
                    [async |-> TRUE, ok |-> FALSE]>>
  /\ tasks = <<>>
  /\ handles[regs.results[3].n].at = 1
  /\ Got(regs.partition) = List(<<List(<<Num(2)>>), List(<<Num(1), Num(3)>>)>>)
  /\ Got(regs.errValues) = List(<<Num(1), Num(3)>>)

(***************************************************************************)
(* flatten.                                                                *)
(***************************************************************************)
\* Ok.unwrap(): return this._val
Ok_unwrap(m, self) == m.heap[self].val

\* (res) => (res.ok ? res.unwrap() : res)
flatten_callback(m, res) ==
  IF m.heap[res.n].ok THEN Ok_unwrap(m, res.n) ELSE res

\* mapAsyncResult(result, callback): a new AsyncResult that awaits result's
\* Result and resolves to what the callback makes of it
mapAsyncResult(m, hs, ts, result, fn) ==
  AggOut(m, Append(hs, NewHandle("AsyncResult", NoWill)),
         Append(ts, Task(fn, <<result>>, Len(hs) + 1)),
         ARef(Len(hs) + 1))

\* unwrap for as long as the payload is a Result again
RECURSIVE unwrap_deep(_, _)
unwrap_deep(m, result) ==
  IF isResult(m, result) /\ m.heap[result.n].ok
     /\ isResult(m, m.heap[result.n].val)
  THEN unwrap_deep(m, m.heap[result.n].val)
  ELSE result

\* flatten collapsing every level
flatten_deep(m, hs, ts, result) ==
  IF AsyncResult_is(result)
  THEN mapAsyncResult(m, hs, ts, result, "flatten")
  ELSE AggOut(m, hs, ts, unwrap_deep(m, result))

\* if (AsyncResult.is(result)) return mapAsyncResult(result, callback);
\* return result.ok ? result.unwrap() : result;
flatten(m, hs, ts, result) ==
  IF AsyncResult_is(result)
  THEN mapAsyncResult(m, hs, ts, result, "flatten")
  ELSE AggOut(m, hs, ts,
              IF m.heap[result.n].ok THEN Ok_unwrap(m, result.n) ELSE result)

(***************************************************************************)
(* SpecFlatten: a program that builds a nested Result, synchronous or      *)
(* behind an AsyncResult, and flattens it:                                 *)
(*   const x = Ok(Ok(42)) | AsyncResult.ok(Ok(42)) | ...;                  *)
(*   const f = flatten(x);                                                 *)
(***************************************************************************)
MaxDepth == 3

\* the nested Results of depth 1 .. d: [ok, inner], inner a number or a
\* nested Result
RECURSIVE Nested(_)
Nested(d) ==
  IF d = 0 THEN {}
  ELSE {[ok |-> o, inner |-> i] : o \in BOOLEAN, i \in Nested(d - 1) \cup Numbers}

IsNested(tree) == "ok" \in DOMAIN tree

\* what flatten accepts: Result<Result<A, B>, B>
FlattenInputs == {tree \in Nested(MaxDepth) : tree.ok => IsNested(tree.inner)}

\* the value Ok(...) / Err(...) builds from the description, innermost first
RECURSIVE BuildNested(_, _)
BuildNested(tree, m) ==
  IF ~IsNested(tree) THEN [mem |-> m, ret |-> tree]
  ELSE LET in == BuildNested(tree.inner, m)
           a == IF tree.ok THEN OkFactory(in.mem, in.ret)
                ELSE ErrFactory(in.mem, in.ret)
       IN [mem |-> a.mem, ret |-> Ref(a.id)]

FlattenInit ==
  /\ opts = <<NewNone>>
  /\ last = Idle
  /\ pc = "flatten"
  /\ input \in [tree : FlattenInputs, async : BOOLEAN]
  /\ tasks = <<>>
  /\ IF input.async
     THEN LET in == BuildNested(input.tree.inner, Mem(<<>>, <<>>))
              a == IF input.tree.ok THEN AsyncResult_ok(<<>>, in.ret)
                   ELSE AsyncResult_err(<<>>, in.ret)
          IN /\ heap = in.mem.heap
             /\ stacks = in.mem.stacks
             /\ handles = a.handles
             /\ regs = [x |-> a.ret, f |-> Undefined]
     ELSE LET b == BuildNested(input.tree, Mem(<<>>, <<>>))
          IN /\ heap = b.mem.heap
             /\ stacks = b.mem.stacks
             /\ handles = <<>>
             /\ regs = [x |-> b.ret, f |-> Undefined]

CallFlatten ==
  /\ pc = "flatten"
  /\ LET out == flatten(Mem(heap, stacks), handles, tasks, regs.x)
     IN /\ heap' = out.mem.heap
        /\ stacks' = out.mem.stacks
        /\ handles' = out.handles
        /\ tasks' = out.tasks
        /\ regs' = [regs EXCEPT !.f = out.ret]
  /\ pc' = "done"
  /\ UNCHANGED <<opts, last, input>>

\* the continuation of mapAsyncResult runs once the AsyncResult it awaits
\* is fulfilled; the callback's value is a Result here, never pending
MapAsyncThen ==
  \E k \in DOMAIN tasks :
    /\ tasks[k].fn = "flatten"
    /\ AllResolved(handles, tasks[k].results)
    /\ LET t == tasks[k]
           res == handles[t.results[1].n].value
       IN handles' = Fulfil(handles, t.out,
                            flatten_callback(Mem(heap, stacks), res), 0)
    /\ tasks' = SubSeq(tasks, 1, k - 1) \o SubSeq(tasks, k + 1, Len(tasks))
    /\ UNCHANGED <<heap, stacks, opts, last, progVars>>

FlattenNext ==
  \/ CallFlatten
  \/ ResolveElem
  \/ MapAsyncThen

SpecFlatten == FlattenInit /\ [][FlattenNext]_vars

\* the value v has the shape the description says: the number itself, or
\* an Ok / Err instance whose payload has the shape of the inner description
RECURSIVE Denotes(_, _)
Denotes(v, tree) ==
  IF ~IsNested(tree) THEN v = tree
  ELSE /\ v.t = "ref"
       /\ v.n \in DOMAIN heap
       /\ heap[v.n].ok = tree.ok
       /\ heap[v.n].err = ~tree.ok
       /\ Denotes(heap[v.n].val, tree.inner)

\* one level less: the inner Result of an Ok, the Err itself
Flattened(tree) == IF tree.ok THEN tree.inner ELSE tree

\* C8: flatten(Ok(Ok(x))) is Ok(x), flatten(Ok(Err(e))) is Err(e) and
\* flatten(Err(e)) is Err(e), with whatever x and e are (further Results
\* included) left as they were; the flatten of an AsyncResult is an
\* AsyncResult, fulfilled only after it and then with the flatten of its
\* Result.
C8_FlattenOneLevel ==
  pc = "done" =>
    IF input.async
    THEN /\ regs.f.t = "async"
         /\ regs.f # regs.x
         /\ handles[regs.f.n].cls = "AsyncResult"
         /\ handles[regs.f.n].state = "fulfilled" =>
              /\ handles[regs.x.n].state = "fulfilled"
              /\ Denotes(handles[regs.x.n].value, input.tree)
              /\ Denotes(handles[regs.f.n].value, Flattened(input.tree))
    ELSE /\ Denotes(regs.x, input.tree)
         /\ Denotes(regs.f, Flattened(input.tree))
         /\ handles = <<>>

\* flatten(AsyncResult.ok(Ok(Ok(1)))) was fulfilled with an Ok holding an
\* Ok holding 1
C8_Witness ==
  /\ pc = "done"
  /\ input.async
  /\ input.tree = [ok |-> TRUE, inner |-> [ok |-> TRUE, inner |->
                     [ok |-> TRUE, inner |-> Num(1)]]]
  /\ handles[regs.f.n].state = "fulfilled"
  /\ LET v == handles[regs.f.n].value
     IN /\ heap[v.n].ok
        /\ heap[heap[v.n].val.n].ok
        /\ heap[heap[v.n].val.n].val = Num(1)

(***************************************************************************)
(* Generators.  A generator object of *[Symbol.iterator] is [of, at]: the  *)
(* instance it iterates and where its body stands ("start" before the      *)
(* first next(), "yield" suspended at its yield, "end" completed).  One    *)
(* next() gives [gen, done, value, threw].                                 *)
(***************************************************************************)
NoGen == [of |-> Null, at |-> "none"]

NewGen(of) == [of |-> of, at |-> "start"]

StepOut(g, done, value, threw) ==
  [gen |-> g, done |-> done, value |-> value, threw |-> threw]

\* next() of a generator that has completed: { done: true, value: undefined }
Completed_next(g) == StepOut(g, TRUE, Undefined, "")

\* the Err iterator completing on its second resume instead of throwing
AbstractResult_next_noThrow(m, g) ==
  LET self == m.heap[g.of.n]
  IN IF g.at = "start" /\ self.ok
     THEN StepOut([g EXCEPT !.at = "end"], TRUE, Ok_unwrap(m, g.of.n), "")
     ELSE IF g.at = "start"
     THEN StepOut([g EXCEPT !.at = "yield"], FALSE, self.val, "")
     ELSE Completed_next([g EXCEPT !.at = "end"])

\* AbstractResult: *[Symbol.iterator]() {
\*   if (this.ok) return this.unwrap();
\*   yield this.unwrapErr();
\*   throw new YieldError(this); }
AbstractResult_next(m, g) ==
  LET self == m.heap[g.of.n]
  IN CASE g.at = "start" /\ self.ok ->
            StepOut([g EXCEPT !.at = "end"], TRUE, Ok_unwrap(m, g.of.n), "")
       [] g.at = "start" /\ ~self.ok ->
            StepOut([g EXCEPT !.at = "yield"], FALSE, self.val, "")
       [] g.at = "yield" ->
            StepOut([g EXCEPT !.at = "end"], FALSE, Undefined, "YieldError")
       [] OTHER -> Completed_next(g)

\* AbstractOption: *[Symbol.iterator]() {
\*   if (this.some) return this.unwrap();
\*   yield undefined;
\*   throw new YieldError(this); }
AbstractOption_next(o, g) ==
  LET self == o[g.of.n]
  IN CASE g.at = "start" /\ self.some ->
            StepOut([g EXCEPT !.at = "end"], TRUE, self.val, "")
       [] g.at = "start" /\ ~self.some ->
            StepOut([g EXCEPT !.at = "yield"], FALSE, Undefined, "")
       [] g.at = "yield" ->
            StepOut([g EXCEPT !.at = "end"], FALSE, Undefined, "YieldError")
       [] OTHER -> Completed_next(g)

\* the first version's iterators:
\*   OkClass:  function* () { yield this; return this.val; }
\*   ErrClass: function* () { yield this; throw new Error(...); }
ResultClass_next(m, g) ==
  LET self == m.heap[g.of.n]
  IN CASE g.at = "start" ->
            StepOut([g EXCEPT !.at = "yield"], FALSE, g.of, "")
       [] g.at = "yield" /\ self.ok ->
            StepOut([g EXCEPT !.at = "end"], TRUE, self.val, "")
       [] g.at = "yield" /\ ~self.ok ->
            StepOut([g EXCEPT !.at = "end"], FALSE, Undefined, "Error")
       [] OTHER -> Completed_next(g)

\* next() of the iterator of a Result, by the version of the class
Iterator_next(version, m, g) ==
  IF version = "v0" THEN ResultClass_next(m, g) ELSE AbstractResult_next(m, g)

(***************************************************************************)
(* The generator handed to use.  Its body delegates to the Results of      *)
(* body in turn, with a statement in front of each that records how far    *)
(* the body ran, and returns the array of what the delegations gave:       *)
(*   function* () { executed.push(1); const x1 = yield* r1;                *)
(*                  executed.push(2); const x2 = yield* r2; ...            *)
(*                  executed.push(n + 1); return [x1, x2, ...]; }          *)
(* Its frame is [body, pos, inner, vals, executed]: the delegation it      *)
(* stands at, the iterator yield* is driving (NoGen before the delegation  *)
(* started), the values so far and the record.  An entry of body that is   *)
(* no Result is a plain value v and stands for the statement `yield v`.    *)
(* nexts counts the calls of next() on the generator.                      *)
(***************************************************************************)
NewFrame(body) ==
  [body |-> body, pos |-> 1, inner |-> NoGen, vals |-> <<>>, executed |-> <<>>,
   nexts |-> 0]

\* next() of the generator: run the body on to its next yield or its return.
\* yield* asks the inner iterator for its next step; a step that is done is
\* the value of the yield* expression, any other is yielded to the caller.
RECURSIVE Body_next(_, _, _)
Body_next(version, m, f) ==
  IF f.pos > Len(f.body)
  THEN StepOut([f EXCEPT !.executed = Append(@, f.pos)], TRUE, List(f.vals), "")
  ELSE IF f.body[f.pos].t # "ref"
  THEN StepOut([f EXCEPT !.pos = @ + 1, !.vals = Append(@, Undefined),
                         !.executed = Append(@, f.pos)],
               FALSE, f.body[f.pos], "")
  ELSE LET fresh == f.inner = NoGen
           executed == IF fresh THEN Append(f.executed, f.pos) ELSE f.executed
           r == Iterator_next(version, m,
                              IF fresh THEN NewGen(f.body[f.pos]) ELSE f.inner)
       IN IF r.threw # ""
          THEN StepOut([f EXCEPT !.inner = r.gen, !.executed = executed],
                       FALSE, Undefined, r.threw)
          ELSE IF r.done
          THEN Body_next(version, m,
                         [f EXCEPT !.pos = @ + 1, !.inner = NoGen,
                                   !.vals = Append(@, r.value),
                                   !.executed = executed])
          ELSE StepOut([f EXCEPT !.inner = r.gen, !.executed = executed],
                       FALSE, r.value, "")

\* gen.next() for the generator with frame f
Generator_next(version, m, f) ==
  LET r == Body_next(version, m, f)
  IN StepOut([r.gen EXCEPT !.nexts = f.nexts + 1], r.done, r.value, r.threw)

\* what a call of use gives: the memory, the value returned, the record of
\* the body's statements, the error thrown, the generator as use left it
UseOut(m, ret, gen, threw) ==
  [mem |-> m, ret |-> ret, executed |-> gen.executed, threw |-> threw,
   gen |-> gen]

\* use calling next() until the generator is done
RECURSIVE use_untilDone_loop(_, _)
use_untilDone_loop(m, f) ==
  LET res == Generator_next("v1", m, f)
  IN IF res.threw # "" THEN UseOut(m, Undefined, res.gen, res.threw)
     ELSE IF res.done
     THEN LET a == AllocOk(m, res.value) IN UseOut(a.mem, Ref(a.id), res.gen, "")
     ELSE use_untilDone_loop(m, res.gen)

use_untilDone(m, body) == use_untilDone_loop(m, NewFrame(body))

\* use wrapping whatever the first step gives in an Ok
use_alwaysOk(m, body) ==
  LET res == Generator_next("v1", m, NewFrame(body))
      a == AllocOk(m, res.value)
  IN UseOut(a.mem, Ref(a.id), res.gen, "")

\* const res = callback().next();
\* if (!(res instanceof Promise))
\*   return res.done ? new Ok(res.value) : new Err(res.value);
\* (the generator is synchronous, so res is never a Promise)
use(m, body) ==
  LET res == Generator_next("v1", m, NewFrame(body))
      a == IF res.done THEN AllocOk(m, res.value) ELSE AllocErr(m, res.value)
  IN UseOut(a.mem, Ref(a.id), res.gen, res.threw)

\* the first version:
\*   const gen = callback();
\*   while (true) { const res = gen.next();
\*     if (res.done) return Ok(res.value);
\*     else if (result.isErr(res.value)) return res.value; }
RECURSIVE use_v0_loop(_, _)
use_v0_loop(m, f) ==
  LET res == Generator_next("v0", m, f)
  IN IF res.threw # "" THEN UseOut(m, Undefined, res.gen, res.threw)
     ELSE IF res.done
     THEN LET a == AllocOk(m, res.value)
          IN UseOut(a.mem, Ref(a.id), res.gen, "")
     ELSE IF isResult(m, res.value) /\ m.heap[res.value.n].cls = "Err"
     THEN UseOut(m, res.value, res.gen, "")
     ELSE use_v0_loop(m, res.gen)

use_v0(m, body) == use_v0_loop(m, NewFrame(body))

(***************************************************************************)
(* SpecUse: a program that builds up to MaxBody Results, hands a generator *)
(* delegating to them to use (either version), and then drives the         *)
(* iterator of one Result or Option by hand:                               *)
(*   const u = use(function* () { ... });                                  *)
(*   const it = x[Symbol.iterator](); it.next(); it.next(); ...            *)
(***************************************************************************)
MaxBody == 3
MaxResume == 3

UseInputs ==
  UNION {[1 .. n -> [ok : BOOLEAN, val : Numbers]] : n \in 0 .. MaxBody}

RECURSIVE BuildBody(_, _, _, _)
BuildBody(list, i, m, refs) ==
  IF i > Len(list) THEN [mem |-> m, refs |-> refs]
  ELSE LET a == IF list[i].ok THEN OkFactory(m, list[i].val)
                ELSE ErrFactory(m, list[i].val)
       IN BuildBody(list, i + 1, a.mem, Append(refs, Ref(a.id)))

UseInit ==
  /\ last = Idle
  /\ pc = "use"
  /\ input \in [body : UseInputs, some : Numbers]
  /\ opts = <<NewNone, NewSome(input.some)>>
  /\ handles = <<>>
  /\ tasks = <<>>
  /\ LET b == BuildBody(input.body, 1, Mem(<<>>, <<>>), <<>>)
     IN /\ heap = b.mem.heap
        /\ stacks = b.mem.stacks
        /\ regs = [body |-> b.refs,
                   u |-> Undefined, executed |-> <<>>, threw |-> "",
                   u0 |-> Undefined, executed0 |-> <<>>, threw0 |-> "",
                   it |-> NoGen, steps |-> <<>>]

CallUse ==
  /\ pc = "use"
  /\ LET out == use(Mem(heap, stacks), regs.body)
     IN /\ heap' = out.mem.heap
        /\ stacks' = out.mem.stacks
        /\ regs' = [regs EXCEPT !.u = out.ret, !.executed = out.executed,
                                !.threw = out.threw]
  /\ pc' = "use_v0"
  /\ UNCHANGED <<opts, last, input, asyncVars>>

CallUseV0 ==
  /\ pc = "use_v0"
  /\ LET out == use_v0(Mem(heap, stacks), regs.body)
     IN /\ heap' = out.mem.heap
        /\ stacks' = out.mem.stacks
        /\ regs' = [regs EXCEPT !.u0 = out.ret, !.executed0 = out.executed,
                                !.threw0 = out.threw]
  /\ pc' = "iterator"
  /\ UNCHANGED <<opts, last, input, asyncVars>>

\* const it = x[Symbol.iterator]() for a Result or an Option x
IterNew ==
  /\ pc = "iterator"
  /\ \E x \in {Ref(i) : i \in DOMAIN heap} \cup {ORef(i) : i \in DOMAIN opts} :
       regs' = [regs EXCEPT !.it = NewGen(x)]
  /\ pc' = "next"
  /\ UNCHANGED <<heap, stacks, opts, last, input, asyncVars>>

\* it.next(), the outcome kept
IterNext ==
  /\ pc = "next"
  /\ Len(regs.steps) < MaxResume
  /\ LET r == IF regs.it.of.t = "oref" THEN AbstractOption_next(opts, regs.it)
              ELSE AbstractResult_next(Mem(heap, stacks), regs.it)
     IN regs' = [regs EXCEPT !.it = r.gen,
                             !.steps = Append(@, [done |-> r.done,
                                                  value |-> r.value,
                                                  threw |-> r.threw])]
  /\ UNCHANGED <<heap, stacks, opts, last, pc, input, asyncVars>>

UseNext ==
  \/ CallUse
  \/ CallUseV0
  \/ IterNew
  \/ IterNext

SpecUse == UseInit /\ [][UseNext]_vars

\* what use must give for the body: with a delegated Err, an Err holding
\* the payload of the first one, the body having run up to the delegation
\* of that one and no further; with none, an Ok holding the array of all
\* the payloads, the body having run to its return
UseRule(u, executed, threw) ==
  LET n == Len(input.body)
      errs == {i \in 1 .. n : ~input.body[i].ok}
  IN /\ threw = ""
     /\ u.t = "ref"
     /\ IF errs # {}
        THEN LET first == CHOOSE i \in errs : \A j \in errs : i <= j
             IN /\ heap[u.n].err
                /\ ~heap[u.n].ok
                /\ heap[u.n].val = input.body[first].val
                /\ executed = [i \in 1 .. first |-> i]
        ELSE /\ heap[u.n].ok
             /\ ~heap[u.n].err
             /\ heap[u.n].val = List([i \in 1 .. n |-> input.body[i].val])
             /\ executed = [i \in 1 .. n + 1 |-> i]

\* C9: use returns an Err holding the error of the first delegated Err, and
\* no statement of the body after that delegation has run; with no Err
\* delegated every delegation gave its Ok payload and use returns an Ok of
\* the body's return value.  Both versions of use.
C9_UseStopsAtFirstErr ==
  /\ pc \in {"use_v0", "iterator", "next"} =>
       UseRule(regs.u, regs.executed, regs.threw)
  /\ pc \in {"iterator", "next"} =>
       /\ UseRule(regs.u0, regs.executed0, regs.threw0)
       /\ \A i \in 1 .. Len(input.body) :
            /\ heap[regs.body[i].n].ok = input.body[i].ok
            /\ heap[regs.body[i].n].val = input.body[i].val

\* use ran a body delegating Ok(1), Err(0), Err(1): it returned a new Err
\* holding 0, and only the statements before the first two delegations ran
C9_Witness ==
  /\ pc = "use_v0"
  /\ input.body = <<[ok |-> TRUE, val |-> Num(1)], [ok |-> FALSE, val |-> Num(0)],
                    [ok |-> FALSE, val |-> Num(1)]>>
  /\ heap[regs.u.n].err
  /\ heap[regs.u.n].val = Num(0)
  /\ regs.u \notin {regs.body[i] : i \in 1 .. 3}
  /\ regs.executed = <<1, 2>>

\* the instance an iterator under test iterates
IterSubject ==
  IF regs.it.of.t = "oref" THEN opts[regs.it.of.n] ELSE heap[regs.it.of.n]
IterSucceeds ==
  IF regs.it.of.t = "oref" THEN IterSubject.some ELSE IterSubject.ok

\* C10: the first next() of the iterator of an Ok or Some reports done
\* with the payload, having yielded nothing; the first next() of the
\* iterator of an Err or None reports not done with the error (undefined
\* for None); the second next() of the latter throws YieldError.
C10_IteratorProtocol ==
  (pc = "next" /\ Len(regs.steps) >= 1) =>
    IF IterSucceeds
    THEN regs.steps[1] = [done |-> TRUE, value |-> IterSubject.val, threw |-> ""]
    ELSE /\ regs.steps[1] =
              [done |-> FALSE,
               value |-> IF regs.it.of.t = "oref" THEN Undefined
                         ELSE IterSubject.val,
               threw |-> ""]
         /\ Len(regs.steps) >= 2 => regs.steps[2].threw = "YieldError"

\* the iterator of an Err holding 1 was resumed twice: it yielded 1, then
\* threw YieldError
C10_Witness ==
  /\ pc = "next"
  /\ regs.it.of.t = "ref"
  /\ heap[regs.it.of.n].err
  /\ heap[regs.it.of.n].val = Num(1)
  /\ Len(regs.steps) = 2
  /\ regs.steps[1] = [done |-> FALSE, value |-> Num(1), threw |-> ""]
  /\ regs.steps[2].threw = "YieldError"

(***************************************************************************)
(* wrap and proxy.  The function handed to them is a spy fn whose k-th     *)
(* call behaves as the k-th entry of a script says: with y = x + 1 for its *)
(* argument x (undefined if called without one) it returns y, throws y, or *)
(* returns a promise that some time later is fulfilled with y or rejected  *)
(* with y.                                                                 *)
(***************************************************************************)
\* a promise rejects
Reject(hs, h, v) ==
  [hs EXCEPT ![h] = [@ EXCEPT !.state = "rejected", !.value = v]]

\* what one call of a function gives: the value returned or thrown, the
\* promises after it, the spy's record of the call
FnOut(hs, threw, value, x) ==
  [handles |-> hs, threw |-> threw, value |-> value, calls |-> <<x>>]

\* the k-th call of the spy, with argument x; a function of kind const
\* returns the value it captured whatever it is handed
Fn_call(hs, entry, x) ==
  LET y == ApplyPrim("inc", x)
  IN CASE entry.kind = "return" -> FnOut(hs, FALSE, y, x)
       [] entry.kind = "throw" -> FnOut(hs, TRUE, y, x)
       [] entry.kind = "fulfil" ->
            FnOut(Append(hs, NewHandle("Promise", [ok |-> TRUE, val |-> y])),
                  FALSE, PRef(Len(hs) + 1), x)
       [] entry.kind = "reject" ->
            FnOut(Append(hs, NewHandle("Promise", [ok |-> FALSE, val |-> y])),
                  FALSE, PRef(Len(hs) + 1), x)
       [] entry.kind = "const" -> FnOut(hs, FALSE, entry.val, x)

\* what a call of wrap gives: memory, promises and continuations after it,
\* the value returned, the spy's record of the calls made
WrapOut(m, hs, ts, ret, calls) ==
  [mem |-> m, handles |-> hs, tasks |-> ts, ret |-> ret, calls |-> calls]

\* wrap without the .catch on the promise
wrap_noCatch(m, hs, ts, entry, x) ==
  LET r == Fn_call(hs, entry, x)
  IN IF r.threw
     THEN LET a == AllocErr(m, r.value) IN WrapOut(a.mem, r.handles, ts, Ref(a.id), r.calls)
     ELSE IF r.value.t \notin {"promise", "async"}
     THEN LET a == AllocOk(m, r.value) IN WrapOut(a.mem, r.handles, ts, Ref(a.id), r.calls)
     ELSE WrapOut(m, Append(r.handles, NewHandle("AsyncResult", NoWill)),
                  Append(ts, Task("wrap_noCatch", <<r.value>>, Len(r.handles) + 1)),
                  ARef(Len(r.handles) + 1), r.calls)

\* try { const returned = callback();
\*       if (!(returned instanceof Promise)) return new Ok(returned);
\*       return AsyncResult.from(new Promise((resolve) => {
\*         returned.then((val) => resolve(new Ok(val)))
\*                 .catch((err) => resolve(new Err(err))); }));
\* } catch (error) { return new Err(error); }
\* with callback = () => fn(x); AsyncResult.from makes a new AsyncResult
\* that follows the promise
wrap(m, hs, ts, entry, x) ==
  LET r == Fn_call(hs, entry, x)
  IN IF r.threw
     THEN LET a == AllocErr(m, r.value) IN WrapOut(a.mem, r.handles, ts, Ref(a.id), r.calls)
     ELSE IF r.value.t \notin {"promise", "async"}
     THEN LET a == AllocOk(m, r.value) IN WrapOut(a.mem, r.handles, ts, Ref(a.id), r.calls)
     ELSE WrapOut(m, Append(r.handles, NewHandle("AsyncResult", NoWill)),
                  Append(ts, Task("wrap", <<r.value>>, Len(r.handles) + 1)),
                  ARef(Len(r.handles) + 1), r.calls)

\* the proxied function called without handing its arguments on
proxy_dropsArgs(m, hs, ts, entry, x) == wrap(m, hs, ts, entry, Undefined)

\* proxy(fn)(...args) == wrap(() => fn(...args))
proxy(m, hs, ts, entry, x) == wrap(m, hs, ts, entry, x)

(***************************************************************************)
(* SpecWrap: a program that calls wrap(fn) and proxy(fn)(x) one after the  *)
(* other as its script says, keeping what each call returned, while the    *)
(* promises fn returned settle at any time.                                *)
(***************************************************************************)
MaxCalls == 2

FnKinds == {"return", "throw", "fulfil", "reject"}

\* one call: through wrap (fn gets no argument) or through the proxy with x
WrapEntries ==
  {[via |-> "wrap", kind |-> k, arg |-> Undefined] : k \in FnKinds}
    \cup {[via |-> "proxy", kind |-> k, arg |-> x] : k \in FnKinds, x \in Numbers}

WrapInputs == UNION {[1 .. n -> WrapEntries] : n \in 1 .. MaxCalls}

WrapInit ==
  /\ heap = <<>>
  /\ stacks = <<>>
  /\ opts = <<NewNone>>
  /\ last = Idle
  /\ pc = "call"
  /\ input \in {[script |-> sc] : sc \in WrapInputs}
  /\ regs = [rets |-> <<>>, calls |-> <<>>]
  /\ handles = <<>>
  /\ tasks = <<>>

\* the program's next call
CallWrapped(via, out) ==
  /\ pc = "call"
  /\ Len(regs.rets) < Len(input.script)
  /\ input.script[Len(regs.rets) + 1].via = via
  /\ heap' = out.mem.heap
  /\ stacks' = out.mem.stacks
  /\ handles' = out.handles
  /\ tasks' = out.tasks
  /\ regs' = [regs EXCEPT !.rets = Append(@, out.ret),
                          !.calls = @ \o out.calls]
  /\ pc' = IF Len(regs.rets) + 1 = Len(input.script) THEN "done" ELSE "call"
  /\ UNCHANGED <<opts, last, input>>

NextEntry == input.script[IF pc = "call" THEN Len(regs.rets) + 1 ELSE 1]

CallWrap ==
  CallWrapped("wrap", wrap(Mem(heap, stacks), handles, tasks, NextEntry, Undefined))

CallProxy ==
  CallWrapped("proxy",
              proxy(Mem(heap, stacks), handles, tasks, NextEntry, NextEntry.arg))

\* a promise returned by fn is fulfilled or rejected
SettlePromise ==
  \E h \in DOMAIN handles :
    /\ handles[h].cls = "Promise"
    /\ handles[h].state = "pending"
    /\ handles[h].will # NoWill
    /\ handles' = IF handles[h].will.ok
                  THEN Fulfil(handles, h, handles[h].will.val, 0)
                  ELSE Reject(handles, h, handles[h].will.val)
    /\ UNCHANGED <<heap, stacks, opts, last, progVars, tasks>>

\* the handlers wrap attached to the promise run once it has settled:
\* (val) => resolve(new Ok(val)) on fulfilment, (err) => resolve(new
\* Err(err)) on rejection; without the catch the rejection passes on
WrapThen ==
  \E k \in DOMAIN tasks :
    /\ tasks[k].fn \in {"wrap", "wrap_noCatch"}
    /\ handles[tasks[k].results[1].n].state # "pending"
    /\ LET t == tasks[k]
           src == handles[t.results[1].n]
       IN IF src.state = "fulfilled"
          THEN LET a == AllocOk(Mem(heap, stacks), src.value)
               IN /\ heap' = a.mem.heap
                  /\ stacks' = a.mem.stacks
                  /\ handles' = Fulfil(handles, t.out, Ref(a.id), 0)
          ELSE IF t.fn = "wrap"
          THEN LET a == AllocErr(Mem(heap, stacks), src.value)
               IN /\ heap' = a.mem.heap
                  /\ stacks' = a.mem.stacks
                  /\ handles' = Fulfil(handles, t.out, Ref(a.id), 0)
          ELSE /\ handles' = Reject(handles, t.out, src.value)
               /\ UNCHANGED <<heap, stacks>>
    /\ tasks' = SubSeq(tasks, 1, k - 1) \o SubSeq(tasks, k + 1, Len(tasks))
    /\ UNCHANGED <<opts, last, progVars>>

WrapNext ==
  \/ CallWrap
  \/ CallProxy
  \/ SettlePromise
  \/ WrapThen

SpecWrap == WrapInit /\ [][WrapNext]_vars

\* call k of the script has been made
Made(k) == k <= Len(regs.rets)

\* the promise fn returned on call k (the calls before it that returned a
\* promise made two promises each: fn's and wrap's)
PendingBefore(k) ==
  Cardinality({j \in 1 .. k - 1 : input.script[j].kind \in {"fulfil", "reject"}})
FnPromise(k) == 2 * PendingBefore(k) + 1

\* call k gave what wrap must give for a function that was handed x and
\* behaved as the script says
WrapRule(k, x) ==
  LET e == input.script[k]
      y == IF x = Undefined THEN NaN ELSE Num((x.n + 1) % NumVals)
      ret == regs.rets[k]
  IN /\ regs.calls[k] = x
     /\ e.kind = "return" =>
          ret.t = "ref" /\ heap[ret.n].ok /\ ~heap[ret.n].err /\ heap[ret.n].val = y
     /\ e.kind = "throw" =>
          ret.t = "ref" /\ heap[ret.n].err /\ ~heap[ret.n].ok /\ heap[ret.n].val = y
     /\ e.kind \in {"fulfil", "reject"} =>
          /\ ret.t = "async"
          /\ handles[ret.n].cls = "AsyncResult"
          /\ handles[ret.n].state # "rejected"
          /\ handles[ret.n].state = "fulfilled" =>
               LET v == handles[ret.n].value
               IN /\ handles[FnPromise(k)].state # "pending"
                  /\ v.t = "ref"
                  /\ heap[v.n].ok = (e.kind = "fulfil")
                  /\ heap[v.n].err = (e.kind = "reject")
                  /\ heap[v.n].val = y

C12_ProxyPerCall ==
  /\ Len(regs.calls) = Len(regs.rets)
  /\ \A k \in 1 .. Len(input.script) :
       (Made(k) /\ input.script[k].via = "proxy") =>
         WrapRule(k, input.script[k].arg)

\* p(1) threw inside fn and gave an Err; the next call p(0) returned and
\* gave an Ok
C12_Witness ==
  /\ Len(input.script) = 2
  /\ input.script[1] = [via |-> "proxy", kind |-> "throw", arg |-> Num(1)]
  /\ input.script[2] = [via |-> "proxy", kind |-> "return", arg |-> Num(0)]
  /\ Made(2)
  /\ heap[regs.rets[1].n].err
  /\ heap[regs.rets[2].n].ok
  /\ heap[regs.rets[2].n].val = Num(1)
  /\ regs.calls = <<Num(1), Num(0)>>

(***************************************************************************)
(* Assertions: the methods assertOk / assertErr of Ok and Err, and the     *)
(* static functions of the same names, in their current and their earlier  *)
(* version.                                                                *)
(***************************************************************************)
\* new AssertError(message, val)
AssertError(val) == [t |-> "AssertError", n |-> 0, val |-> val]

NoError == [t |-> "none", n |-> 0]

\* what an assertion gives: memory, promises, continuations, the value
\* returned, the error thrown (NoError for none)
AssertOut(m, hs, ts, ret, threw) ==
  [mem |-> m, handles |-> hs, tasks |-> ts, ret |-> ret, threw |-> threw]

\* Ok.assertOk(): return this._val
Ok_assertOk(m, self) == [ret |-> m.heap[self].val, threw |-> NoError]

\* Ok.assertErr(message?): throw new AssertError(..., this)
Ok_assertErr(m, self) == [ret |-> Undefined, threw |-> AssertError(Ref(self))]

\* Err.assertOk returning the error instead of throwing
Err_assertOk_returns(m, self) == [ret |-> m.heap[self].val, threw |-> NoError]

\* Err.assertOk(message?): throw new AssertError(..., this)
Err_assertOk(m, self) == [ret |-> Undefined, threw |-> AssertError(Ref(self))]

\* Err.assertErr(): return this._val
Err_assertErr(m, self) == [ret |-> m.heap[self].val, threw |-> NoError]

Call_assertOk(m, self) ==
  IF IsOkInstance(m, self) THEN Ok_assertOk(m, self) ELSE Err_assertOk(m, self)

Call_assertErr(m, self) ==
  IF IsOkInstance(m, self) THEN Ok_assertErr(m, self) ELSE Err_assertErr(m, self)

\* the asynchronous branch of an assertion: a promise and the continuation
\* behind the AsyncResult
AssertDeferred(m, hs, ts, fn, result) ==
  AssertOut(m, Append(hs, NewHandle("Promise", NoWill)),
            Append(ts, Task(fn, <<result>>, Len(hs) + 1)),
            PRef(Len(hs) + 1), NoError)

\* assertOk(result):
\*   if (AsyncResult.is(result))
\*     return result.unwrapPromise().catch((res) =>
\*       Promise.reject(new AssertError("Expected Ok, ...", res)));
\*   if (result.ok) return result.unwrap();
\*   else throw new AssertError("Expected Ok, ...", result);
assertOk(m, hs, ts, result) ==
  IF AsyncResult_is(result) THEN AssertDeferred(m, hs, ts, "assertOk", result)
  ELSE IF m.heap[result.n].ok
  THEN AssertOut(m, hs, ts, Ok_unwrap(m, result.n), NoError)
  ELSE AssertOut(m, hs, ts, Undefined, AssertError(result))

\* assertErr(result):
\*   if (AsyncResult.is(result))
\*     return result.swap().unwrapPromise().catch((res) =>
\*       Promise.reject(new AssertError("Expected Err, ...", res)));
\*   if (result.err) return result.unwrapErr();
\*   throw new AssertError("Expected Err, ...", result);
assertErr(m, hs, ts, result) ==
  IF AsyncResult_is(result) THEN AssertDeferred(m, hs, ts, "assertErr", result)
  ELSE IF m.heap[result.n].err
  THEN AssertOut(m, hs, ts, m.heap[result.n].val, NoError)
  ELSE AssertOut(m, hs, ts, Undefined, AssertError(result))

\* the earlier version: the same synchronous part, and
\*   if (AsyncResult.is(result)) return result.then((res) => {
\*     if (res.ok) return Promise.resolve(res.unwrap());
\*     return Promise.reject(new AssertError("Expected Ok, ...", res)); });
assertOk_v0(m, hs, ts, result) ==
  IF AsyncResult_is(result) THEN AssertDeferred(m, hs, ts, "assertOk_v0", result)
  ELSE IF m.heap[result.n].ok
  THEN AssertOut(m, hs, ts, Ok_unwrap(m, result.n), NoError)
  ELSE AssertOut(m, hs, ts, Undefined, AssertError(result))

assertErr_v0(m, hs, ts, result) ==
  IF AsyncResult_is(result) THEN AssertDeferred(m, hs, ts, "assertErr_v0", result)
  ELSE IF m.heap[result.n].err
  THEN AssertOut(m, hs, ts, m.heap[result.n].val, NoError)
  ELSE AssertOut(m, hs, ts, Undefined, AssertError(result))

\* AsyncResult.swap(): the Result with its case exchanged, a new instance
AsyncResult_swap(m, res) ==
  IF m.heap[res.n].ok THEN AllocErr(m, m.heap[res.n].val)
  ELSE AllocOk(m, m.heap[res.n].val)

\* AsyncResult.unwrapPromise(): a promise fulfilled with the payload of an
\* Ok and rejected with an Err
AsyncResult_unwrapPromise(m, res) ==
  IF m.heap[res.n].ok THEN [ok |-> TRUE, value |-> m.heap[res.n].val]
  ELSE [ok |-> FALSE, value |-> res]

\* the continuation of an assertion on an AsyncResult that resolved to res:
\* the memory after it, whether its promise is fulfilled, and with what
AssertSettle(fn, m, res) ==
  CASE fn = "assertOk" ->
         LET u == AsyncResult_unwrapPromise(m, res)
         IN [mem |-> m, ok |-> u.ok,
             value |-> IF u.ok THEN u.value ELSE AssertError(u.value)]
    [] fn = "assertErr" ->
         LET sw == AsyncResult_swap(m, res)
             u == AsyncResult_unwrapPromise(sw.mem, Ref(sw.id))
         IN [mem |-> sw.mem, ok |-> u.ok,
             value |-> IF u.ok THEN u.value ELSE AssertError(u.value)]
    [] fn = "assertOk_v0" ->
         [mem |-> m, ok |-> m.heap[res.n].ok,
          value |-> IF m.heap[res.n].ok THEN Ok_unwrap(m, res.n)
                    ELSE AssertError(res)]
    [] fn = "assertErr_v0" ->
         [mem |-> m, ok |-> m.heap[res.n].err,
          value |-> IF m.heap[res.n].err THEN m.heap[res.n].val
                    ELSE AssertError(res)]

(***************************************************************************)
(* SpecAssert: a program that makes one Result or AsyncResult x and        *)
(* asserts its case, by the method or by either static function:           *)
(*   x.assertOk() | x.assertErr() | assertOk(x) | assertErr(x)             *)
(***************************************************************************)
AssertInputs ==
  {i \in [fn : {"assertOk", "assertErr"}, ver : {"method", "static", "static_v0"},
          ok : BOOLEAN, val : Payloads, async : BOOLEAN] :
     i.ver = "method" => ~i.async}

AssertInit ==
  /\ opts = <<NewNone>>
  /\ last = Idle
  /\ pc = "assert"
  /\ input \in AssertInputs
  /\ tasks = <<>>
  /\ regs = [ret |-> Undefined, threw |-> NoError]
  /\ IF input.async
     THEN /\ heap = <<>>
          /\ stacks = <<>>
          /\ handles = (IF input.ok THEN AsyncResult_ok(<<>>, input.val)
                        ELSE AsyncResult_err(<<>>, input.val)).handles
     ELSE LET a == IF input.ok THEN OkFactory(Mem(<<>>, <<>>), input.val)
                   ELSE ErrFactory(Mem(<<>>, <<>>), input.val)
          IN /\ heap = a.mem.heap
             /\ stacks = a.mem.stacks
             /\ handles = <<>>

\* x: the first object made, a Result or an AsyncResult
AssertSubject == IF input.async THEN ARef(1) ELSE Ref(1)

CallAssertMethod ==
  /\ pc = "assert"
  /\ input.ver = "method"
  /\ LET out == IF input.fn = "assertOk" THEN Call_assertOk(Mem(heap, stacks), 1)
                ELSE Call_assertErr(Mem(heap, stacks), 1)
     IN regs' = [ret |-> out.ret, threw |-> out.threw]
  /\ pc' = "done"
  /\ UNCHANGED <<heap, stacks, opts, last, input, asyncVars>>

CallAssertStatic(ver, out) ==
  /\ pc = "assert"
  /\ input.ver = ver
  /\ heap' = out.mem.heap
  /\ stacks' = out.mem.stacks
  /\ handles' = out.handles
  /\ tasks' = out.tasks
  /\ regs' = [ret |-> out.ret, threw |-> out.threw]
  /\ pc' = "done"
  /\ UNCHANGED <<opts, last, input>>

CallAssert ==
  CallAssertStatic("static",
    IF input.fn = "assertOk"
    THEN assertOk(Mem(heap, stacks), handles, tasks, AssertSubject)
    ELSE assertErr(Mem(heap, stacks), handles, tasks, AssertSubject))

CallAssertV0 ==
  CallAssertStatic("static_v0",
    IF input.fn = "assertOk"
    THEN assertOk_v0(Mem(heap, stacks), handles, tasks, AssertSubject)
    ELSE assertErr_v0(Mem(heap, stacks), handles, tasks, AssertSubject))

\* the continuation of an assertion runs once the AsyncResult is fulfilled
AssertThen ==
  \E k \in DOMAIN tasks :
    /\ handles[tasks[k].results[1].n].state = "fulfilled"
    /\ LET t == tasks[k]
           r == AssertSettle(t.fn, Mem(heap, stacks),
                             handles[t.results[1].n].value)
       IN /\ heap' = r.mem.heap
          /\ stacks' = r.mem.stacks
          /\ handles' = IF r.ok THEN Fulfil(handles, t.out, r.value, 0)
                        ELSE Reject(handles, t.out, r.value)
    /\ tasks' = SubSeq(tasks, 1, k - 1) \o SubSeq(tasks, k + 1, Len(tasks))
    /\ UNCHANGED <<opts, last, progVars>>

AssertNext ==
  \/ CallAssertMethod
  \/ CallAssert
  \/ CallAssertV0
  \/ ResolveElem
  \/ AssertThen

SpecAssert == AssertInit /\ [][AssertNext]_vars

\* the assertion names the case x has
AssertMatches == (input.fn = "assertOk") = input.ok

\* C13: on a Result, assertOk / assertErr (method or static function)
\* return the payload when the case is the one asserted and otherwise throw
\* an AssertError whose val is the instance itself; on an AsyncResult the
\* static functions return a promise that settles only after the
\* AsyncResult, fulfilled with the payload when the case is the one
\* asserted and rejected with an AssertError otherwise.
C13_Assertions ==
  pc = "done" =>
    IF input.async
    THEN /\ regs.threw = NoError
         /\ regs.ret.t = "promise"
         /\ handles[regs.ret.n].state # "pending" =>
              /\ handles[1].state = "fulfilled"
              /\ heap[handles[1].value.n].ok = input.ok
              /\ IF AssertMatches
                 THEN /\ handles[regs.ret.n].state = "fulfilled"
                      /\ handles[regs.ret.n].value = input.val
                 ELSE /\ handles[regs.ret.n].state = "rejected"
                      /\ handles[regs.ret.n].value.t = "AssertError"
    ELSE /\ heap[1].ok = input.ok
         /\ heap[1].val = input.val
         /\ IF AssertMatches
            THEN regs.threw = NoError /\ regs.ret = input.val
            ELSE regs.threw = AssertError(Ref(1))

\* Err(1).assertOk() threw an AssertError carrying the Err
C13_Witness ==
  /\ pc = "done"
  /\ input = [fn |-> "assertOk", ver |-> "method", ok |-> FALSE, val |-> Num(1),
              async |-> FALSE]
  /\ regs.threw = AssertError(Ref(1))
  /\ heap[1].err

(***************************************************************************)
(* AbstractResult.try / tryRecover with callbacks that may return          *)
(* promises.  The receiver's payload is never a Promise here, so the       *)
(* branch on isPromise(this._val) is not taken.  A callback cb is          *)
(* [k, asyncFn]: what it returns for its argument x, with y = x + 1, and   *)
(* whether it is declared async:                                           *)
(*   "mkOk" / "mkErr"     a new Ok(y) / Err(y)                             *)
(*   "mkErrTraced"        Err(y).trace("t2")                               *)
(*   "promiseOk" / "promiseErr"  a Promise later fulfilled with a new      *)
(*                        Ok(y) / Err(y)                                   *)
(*   "promiseRaw"         a Promise later fulfilled with y                 *)
(*   "asyncOk" / "asyncErr"  AsyncResult.ok(y) / AsyncResult.err(y)        *)
(*   "scalar", "object", "emptyArray", "asyncArray"   y, an object, [],    *)
(*                        [AsyncResult.ok(y)]                              *)
(***************************************************************************)
ExpectedResultError(val) == [t |-> "ExpectedResultError", n |-> 0, val |-> val]

AnObject == [t |-> "object", n |-> 0]

\* what the producer behind a promise will deliver: a new Ok(val) or
\* Err(val), or val itself (raw)
Will(ok, val, raw) == [ok |-> ok, val |-> val, raw |-> raw]

SyncKinds == {"mkOk", "mkErr", "mkErrTraced"}
PromiseKinds == {"promiseOk", "promiseErr", "promiseRaw"}
AsyncKinds == {"asyncOk", "asyncErr"}
RawKinds == {"scalar", "object", "emptyArray", "asyncArray"}

\* what a call of try gives
TryOut(m, hs, ts, ret, calls, threw) ==
  [mem |-> m, handles |-> hs, tasks |-> ts, ret |-> ret, calls |-> calls,
   threw |-> threw]

\* callback(x): the memory and promises after it and the value returned
Callback_call(m, hs, cb, x) ==
  LET y == ApplyPrim("inc", x)
      pending(cls, w) == [mem |-> m, handles |-> Append(hs, NewHandle(cls, w)),
                          ret |-> IF cls = "AsyncResult" THEN ARef(Len(hs) + 1)
                                  ELSE PRef(Len(hs) + 1)]
  IN CASE cb.k = "mkOk" ->
            LET a == AllocOk(m, y) IN [mem |-> a.mem, handles |-> hs, ret |-> Ref(a.id)]
       [] cb.k = "mkErr" ->
            LET a == AllocErr(m, y) IN [mem |-> a.mem, handles |-> hs, ret |-> Ref(a.id)]
       [] cb.k = "mkErrTraced" ->
            LET a == AllocErr(m, y)
                b == Err_trace(a.mem, a.id, "t2")
            IN [mem |-> b.mem, handles |-> hs, ret |-> b.ret]
       [] cb.k = "promiseOk" -> pending("Promise", Will(TRUE, y, FALSE))
       [] cb.k = "promiseErr" -> pending("Promise", Will(FALSE, y, FALSE))
       [] cb.k = "promiseRaw" -> pending("Promise", Will(TRUE, y, TRUE))
       [] cb.k = "asyncOk" -> pending("AsyncResult", Will(TRUE, y, FALSE))
       [] cb.k = "asyncErr" -> pending("AsyncResult", Will(FALSE, y, FALSE))
       [] cb.k = "scalar" -> [mem |-> m, handles |-> hs, ret |-> y]
       [] cb.k = "object" -> [mem |-> m, handles |-> hs, ret |-> AnObject]
       [] cb.k = "emptyArray" -> [mem |-> m, handles |-> hs, ret |-> List(<<>>)]
       [] cb.k = "asyncArray" ->
            LET a == pending("AsyncResult", Will(TRUE, y, FALSE))
            IN [mem |-> m, handles |-> a.handles, ret |-> List(<<a.ret>>)]

\* const res = callback(this._val);
\* if (AsyncResult.is(res)) return res;
\* else if (isPromise(res)) return AsyncResult.from(res.then(validate));
\* else if (isResult(res)) return res;
\* throw new ExpectedResultError(res);
Try_dispatch(m, hs, ts, self, cb) ==
  LET x == m.heap[self].val
      c == Callback_call(m, hs, cb, x)
      res == c.ret
  IN IF AsyncResult_is(res)
     THEN TryOut(c.mem, c.handles, ts, res, <<x>>, NoError)
     ELSE IF res.t = "promise"
     THEN TryOut(c.mem, Append(c.handles, NewHandle("AsyncResult", NoWill)),
                 Append(ts, Task("validate", <<res>>, Len(c.handles) + 1)),
                 ARef(Len(c.handles) + 1), <<x>>, NoError)
     ELSE IF isResult(c.mem, res)
     THEN TryOut(c.mem, c.handles, ts, res, <<x>>, NoError)
     ELSE TryOut(c.mem, c.handles, ts, Undefined, <<x>>, ExpectedResultError(res))

\* try wrapping an AsyncResult the callback returned in a new one
AbstractResult_try_rewraps(m, hs, ts, self, cb) ==
  LET out == Try_dispatch(m, hs, ts, self, cb)
  IN IF m.heap[self].err THEN TryOut(m, hs, ts, Ref(self), <<>>, NoError)
     ELSE IF out.ret.t = "async" /\ out.tasks = ts
     THEN TryOut(out.mem, Append(out.handles, NewHandle("AsyncResult", NoWill)),
                 Append(ts, Task("validate", <<out.ret>>, Len(out.handles) + 1)),
                 ARef(Len(out.handles) + 1), out.calls, NoError)
     ELSE out

\* try: if (this.err) return this; then the dispatch on callback(this._val)
AbstractResult_try_async(m, hs, ts, self, cb) ==
  IF m.heap[self].err THEN TryOut(m, hs, ts, Ref(self), <<>>, NoError)
  ELSE Try_dispatch(m, hs, ts, self, cb)

\* tryRecover: if (this.ok) return this; then the same dispatch
AbstractResult_tryRecover_async(m, hs, ts, self, cb) ==
  IF m.heap[self].ok THEN TryOut(m, hs, ts, Ref(self), <<>>, NoError)
  ELSE Try_dispatch(m, hs, ts, self, cb)

(***************************************************************************)
(* SpecTry: the program builds one Result r (an Ok, an Err, or an Err that *)
(* was traced once), calls r.try(f) or r.tryRecover(f) with one callback,  *)
(* and then the promises the callback made are settled and the             *)
(* continuations run.                                                      *)
(***************************************************************************)
TryCallbacks ==
  {[k |-> k, asyncFn |-> FALSE] :
     k \in SyncKinds \cup PromiseKinds \cup AsyncKinds \cup RawKinds}
  \cup {[k |-> k, asyncFn |-> TRUE] : k \in PromiseKinds}

TryInputs ==
  {i \in [ok : BOOLEAN, val : Numbers, traced : BOOLEAN,
          op : {"try", "tryRecover"}, cb : TryCallbacks] :
     i.ok => ~i.traced}

\* the Result r of the program
BuildReceiver(i) ==
  IF i.ok THEN AllocOk(Mem(<<>>, <<>>), i.val)
  ELSE LET a == AllocErr(Mem(<<>>, <<>>), i.val)
           b == Err_trace(a.mem, a.id, "t1")
       IN IF i.traced THEN [mem |-> b.mem, id |-> b.ret.n] ELSE a

TryInit ==
  /\ opts = <<NewNone>>
  /\ last = Idle
  /\ pc = "call"
  /\ input \in TryInputs
  /\ heap = BuildReceiver(input).mem.heap
  /\ stacks = BuildReceiver(input).mem.stacks
  /\ regs = [self |-> BuildReceiver(input).id, ret |-> Undefined,
             threw |-> NoError, calls |-> <<>>, before |-> 0]
  /\ handles = <<>>
  /\ tasks = <<>>

CallTryOp(op, out) ==
  /\ pc = "call"
  /\ input.op = op
  /\ heap' = out.mem.heap
  /\ stacks' = out.mem.stacks
  /\ handles' = out.handles
  /\ tasks' = out.tasks
  /\ regs' = [regs EXCEPT !.ret = out.ret, !.threw = out.threw,
                          !.calls = out.calls, !.before = Len(heap)]
  /\ pc' = "done"
  /\ UNCHANGED <<opts, last, input>>

CallTry ==
  CallTryOp("try", AbstractResult_try_async(Mem(heap, stacks), handles, tasks,
                                            regs.self, input.cb))

CallTryRecover ==
  CallTryOp("tryRecover",
            AbstractResult_tryRecover_async(Mem(heap, stacks), handles, tasks,
                                            regs.self, input.cb))

\* the producer behind a promise the callback returned delivers
TrySettle ==
  \E h \in DOMAIN handles :
    /\ handles[h].state = "pending"
    /\ handles[h].will # NoWill
    /\ LET w == handles[h].will
           a == IF w.ok THEN AllocOk(Mem(heap, stacks), w.val)
                ELSE AllocErr(Mem(heap, stacks), w.val)
       IN IF w.raw
          THEN /\ handles' = Fulfil(handles, h, w.val, 0)
               /\ UNCHANGED <<heap, stacks>>
          ELSE /\ handles' = Fulfil(handles, h, Ref(a.id), 0)
               /\ heap' = a.mem.heap
               /\ stacks' = a.mem.stacks
    /\ UNCHANGED <<opts, last, progVars, tasks>>

\* res.then(validate): isResult(res) ? res : throw new ExpectedResultError()
TryThen ==
  \E k \in DOMAIN tasks :
    /\ tasks[k].fn = "validate"
    /\ handles[tasks[k].results[1].n].state = "fulfilled"
    /\ LET t == tasks[k]
           res == handles[t.results[1].n].value
       IN handles' = IF isResult(Mem(heap, stacks), res)
                     THEN Fulfil(handles, t.out, res, 0)
                     ELSE Reject(handles, t.out, ExpectedResultError(res))
    /\ tasks' = SubSeq(tasks, 1, k - 1) \o SubSeq(tasks, k + 1, Len(tasks))
    /\ UNCHANGED <<heap, stacks, opts, last, progVars>>

TryNext ==
  \/ CallTry
  \/ CallTryRecover
  \/ TrySettle
  \/ TryThen

SpecTry == TryInit /\ [][TryNext]_vars

\* the call of the program has returned and it invoked the callback
Invoked ==
  /\ pc = "done"
  /\ input.ok = (input.op = "try")

\* the call of the program has returned and its receiver is the no-op case
NoOp ==
  /\ pc = "done"
  /\ input.ok # (input.op = "try")

\* the Result a callback of kind k makes from v: an Ok or an Err of v + 1
MadeBy(k, obj) ==
  /\ obj.ok = (k \in {"mkOk", "promiseOk", "asyncOk"})
  /\ obj.val = ApplyPrim("inc", input.val)

\* C14: on an Ok(v), try(f) invokes f exactly once with v; it returns the
\* Result f returned when f returns a Result; when f returns a pending
\* promise of a Result it returns a new AsyncResult that, once fulfilled,
\* holds the Result the promise was fulfilled with; when f returns an
\* AsyncResult it returns that same AsyncResult and makes no other promise.
C14_TryAutoLift ==
  (Invoked /\ input.op = "try") =>
    /\ regs.calls = <<input.val>>
    /\ input.cb.k \in SyncKinds =>
         /\ regs.ret.t = "ref"
         /\ regs.ret.n > regs.before
         /\ MadeBy(input.cb.k, heap[regs.ret.n])
         /\ handles = <<>>
    /\ input.cb.k \in {"promiseOk", "promiseErr"} =>
         /\ regs.ret = ARef(2)
         /\ handles[1].cls = "Promise"
         /\ handles[2].cls = "AsyncResult"
         /\ handles[2].state # "rejected"
         /\ handles[2].state = "fulfilled" =>
              /\ handles[1].state = "fulfilled"
              /\ handles[2].value = handles[1].value
              /\ MadeBy(input.cb.k, heap[handles[2].value.n])
    /\ input.cb.k \in AsyncKinds =>
         /\ regs.ret = ARef(1)
         /\ Len(handles) = 1
         /\ tasks = <<>>
         /\ handles[1].state = "fulfilled" =>
              MadeBy(input.cb.k, heap[handles[1].value.n])

C14_Witness ==
  /\ Invoked
  /\ input.op = "try"
  /\ input.cb.k = "promiseErr"
  /\ regs.ret.t = "async"
  /\ handles[regs.ret.n].state = "fulfilled"

\* C15: with an async function as the callback, Err(e).try and
\* Ok(v).tryRecover do not invoke it and return an AsyncResult, not the
\* receiver, that is fulfilled with a Result of the receiver's case and
\* payload.
C15_NoOpLifts ==
  (NoOp /\ input.cb.asyncFn) =>
    /\ regs.calls = <<>>
    /\ regs.ret.t = "async"
    /\ handles[regs.ret.n].state = "fulfilled" =>
         /\ heap[handles[regs.ret.n].value.n].ok = input.ok
         /\ heap[handles[regs.ret.n].value.n].val = input.val

\* C16: Ok.try(f) and Err.tryRecover(f) throw ExpectedResultError when f
\* returns a scalar, an object, an empty array or an array of AsyncResults,
\* and when f returns a promise fulfilled with a value that is not a Result
\* the AsyncResult returned is rejected with ExpectedResultError.
C16_ReturnValidated ==
  Invoked =>
    /\ input.cb.k \in RawKinds => regs.threw.t = "ExpectedResultError"
    /\ input.cb.k = "promiseRaw" =>
         /\ regs.ret.t = "async"
         /\ handles[regs.ret.n].state # "fulfilled"
         /\ handles[regs.ret.n].state = "rejected" =>
              handles[regs.ret.n].value.t = "ExpectedResultError"

\* the trace of the Err object id
TraceOf(id) == stacks[heap[id].stack]

\* C17: for an Err r with trace T, r.tryRecover(f) with f returning an Err
\* with trace U returns an Err with f's error whose trace is T followed by
\* U, and with f returning an Ok it returns that Ok.
C17_TraceInherited ==
  (Invoked /\ input.op = "tryRecover" /\ input.cb.k \in SyncKinds) =>
    /\ regs.ret.t = "ref"
    /\ MadeBy(input.cb.k, heap[regs.ret.n])
    /\ heap[regs.ret.n].err =>
         TraceOf(regs.ret.n)
           = TraceOf(regs.self)
               \o (IF input.cb.k = "mkErrTraced" THEN <<[id |-> "t2"]>> ELSE <<>>)

(***************************************************************************)
(* SpecTrace: a caller that holds one Err and calls trace, mapErr,         *)
(* replaceErr, tapErr and tryRecover on any instance it holds, in any      *)
(* order, keeping every instance returned.                                 *)
(***************************************************************************)
\* instances one run of SpecTrace may allocate
MaxErrs == 3

\* the tag handed to trace, as the argument of the call
TagArg(id) == [t |-> "tag", n |-> 0, id |-> id]

TraceInit ==
  /\ \E v \in Numbers : /\ heap = AllocErr(Mem(<<>>, <<>>), v).mem.heap
                        /\ stacks = AllocErr(Mem(<<>>, <<>>), v).mem.stacks
  /\ opts = <<NewNone>>
  /\ last = Idle
  /\ pc = "calls"
  /\ input = <<>>
  /\ regs = <<>>
  /\ handles = <<>>
  /\ tasks = <<>>

\* one method call on heap[self] with outcome out
TraceCall(op, self, cb, arg, out) ==
  /\ Len(out.mem.heap) <= MaxErrs
  /\ heap' = out.mem.heap
  /\ stacks' = out.mem.stacks
  /\ last' = Last(op, self, cb, arg, out, Len(heap))
  /\ UNCHANGED <<opts, progVars, asyncVars>>

CallTrace ==
  \E self \in DOMAIN heap, id \in Tags :
    TraceCall("trace", self, NoCallback, TagArg(id),
              Call_trace(Mem(heap, stacks), self, id))

CallMapErr ==
  \E self \in DOMAIN heap :
    TraceCall("mapErr", self, Fn("inc"), Undefined,
              Call_mapErr(Mem(heap, stacks), self, Fn("inc")))

CallReplaceErr ==
  \E self \in DOMAIN heap, val \in Numbers :
    TraceCall("replaceErr", self, NoCallback, val,
              Call_replaceErr(Mem(heap, stacks), self, val))

CallTapErr ==
  \E self \in DOMAIN heap :
    TraceCall("tapErr", self, Fn("inc"), Undefined,
              Call_tapErr(Mem(heap, stacks), self, Fn("inc")))

CallTryRecoverSync ==
  \E self \in DOMAIN heap, cb \in ResultCallbacks(heap) :
    TraceCall("tryRecover", self, cb, Undefined,
              AbstractResult_tryRecover(Mem(heap, stacks), self, cb))

TraceNext ==
  \/ CallTrace
  \/ CallMapErr
  \/ CallReplaceErr
  \/ CallTapErr
  \/ CallTryRecoverSync

SpecTrace == TraceInit /\ [][TraceNext]_vars

\* Err.trace(tag) gave a new Err with the receiver's error and the
\* receiver's trace followed by tag
TraceAppended ==
  (last.op = "trace" /\ heap[last.recv].err) =>
    /\ last.ret = Ref(last.before + 1)
    /\ Len(heap) = last.before + 1
    /\ heap[last.ret.n].err
    /\ heap[last.ret.n].val = heap[last.recv].val
    /\ TraceOf(last.ret.n) = Append(TraceOf(last.recv), [id |-> last.arg.id])

\* a call leaves every existing instance and its trace as they were
TracesKept ==
  /\ Len(heap') >= Len(heap)
  /\ \A i \in DOMAIN heap :
       /\ heap'[i] = heap[i]
       /\ heap[i].err => stacks'[heap[i].stack] = stacks[heap[i].stack]

\* C18: Err.trace(tag) returns a new Err with the same error whose trace is
\* the receiver's trace with tag appended, and no call of trace, mapErr,
\* replaceErr, tapErr or tryRecover changes the trace of an Err that
\* existed before the call (the receiver or an Err a callback returns).
C18_TraceImmutable == [](TraceAppended) /\ [][TracesKept]_vars

\* an Err that was already traced is traced again, and differs from the
\* receiver, whose trace is still the one-tag trace
C18_Witness ==
  /\ last.op = "trace"
  /\ heap[last.recv].err
  /\ Len(TraceOf(last.recv)) = 1
  /\ Len(TraceOf(last.ret.n)) = 2
  /\ last.ret.n # last.recv

(***************************************************************************)
(* class AsyncResult: from, map, tap, tapErr, and the promise machinery    *)
(* under them.  A promise keeps its reactions in registration order (the   *)
(* entries of tasks that name it); when it is fulfilled they move, in that *)
(* order, to the end of the job queue, and jobs run first in, first out.   *)
(* Resolving a promise with another promise queues a job that calls then   *)
(* on it.  Two versions: "v1" where AsyncResult extends Promise, "v0"      *)
(* where it holds a Promise in _val and goes through toResult().           *)
(***************************************************************************)
Job(fn, src, out, idx, val) ==
  [fn |-> fn, results |-> <<ARef(src)>>, out |-> out, idx |-> idx, val |-> val]

\* a new promise that is already fulfilled (Promise.resolve(v), or an async
\* function that returned without awaiting)
Fulfilled(cls, v) ==
  [cls |-> cls, state |-> "fulfilled", value |-> v, will |-> NoWill, at |-> 0]

\* the promises, the registered reactions, the job queue, the value returned
AsyncState(m, hs, ts, q, ret) ==
  [mem |-> m, handles |-> hs, tasks |-> ts, queue |-> q, ret |-> ret]

\* the reactions registered on promise h, last registered first
Reactions_reversed(ts, h) ==
  LET on == SelectSeq(ts, LAMBDA t : t.results[1].n = h)
  IN [i \in 1 .. Len(on) |-> on[Len(on) + 1 - i]]

\* the reactions registered on promise h, in registration order
Reactions(ts, h) == SelectSeq(ts, LAMBDA t : t.results[1].n = h)

\* promise.then(job): registered while the promise is pending, queued at
\* once when it is already fulfilled
Then(m, hs, ts, q, job) ==
  IF hs[job.results[1].n].state = "pending"
  THEN AsyncState(m, hs, Append(ts, job), q, Undefined)
  ELSE AsyncState(m, hs, ts, Append(q, job), Undefined)

\* promise h is fulfilled with v: its reactions are queued
Settle(m, hs, ts, q, h, v) ==
  AsyncState(m, Fulfil(hs, h, v, 0),
             SelectSeq(ts, LAMBDA t : t.results[1].n # h),
             q \o Reactions(ts, h), Undefined)

\* new AsyncResult(...) around res.  v1: the executor resolves the new
\* promise with toPromiseResult(res), a promise.  v0: the new AsyncResult
\* holds Promise.resolve(res), fulfilled from the start.
newAsyncResult(ver, m, hs, ts, q, res) ==
  IF res.t = "ref" /\ ver = "v0"
  THEN AsyncState(m, Append(hs, Fulfilled("AsyncResult", res)), ts, q,
                  ARef(Len(hs) + 1))
  ELSE IF res.t = "ref"
  THEN AsyncState(m, hs \o <<Fulfilled("Promise", res), NewHandle("AsyncResult", NoWill)>>,
                  ts, Append(q, Job("thenable", Len(hs) + 1, Len(hs) + 2, 0, Undefined)),
                  ARef(Len(hs) + 2))
  ELSE AsyncState(m, Append(hs, NewHandle("AsyncResult", NoWill)), ts,
                  Append(q, Job("thenable", res.n, Len(hs) + 1, 0, Undefined)),
                  ARef(Len(hs) + 1))

\* from always making a new AsyncResult
AsyncResult_from_wraps(ver, m, hs, ts, q, res) ==
  newAsyncResult(ver, m, hs, ts, q, res)

\* AsyncResult.from(res).
\* v1: if (AsyncResult.is(res)) return res;
\*     else return new AsyncResult((resolve) => resolve(toPromiseResult(res)));
\* v0: if (res instanceof AsyncResult) return res;
\*     else return new AsyncResult(res instanceof Promise ? res : Promise.resolve(res));
AsyncResult_from(ver, m, hs, ts, q, res) ==
  IF (ver = "v1" /\ AsyncResult_is(res)) \/ (ver = "v0" /\ res.t = "async")
  THEN AsyncState(m, hs, ts, q, res)
  ELSE IF ver = "v0" /\ res.t = "promise"
  THEN AsyncState(m, [hs EXCEPT ![res.n].cls = "AsyncResult"], ts, q, ARef(res.n))
  ELSE newAsyncResult(ver, m, hs, ts, q, res)

\* v0 toResult(): async, return this._val.  A new promise resolved with the
\* promise in _val.
toResult(m, hs, ts, q, self) ==
  AsyncState(m, Append(hs, NewHandle("Promise", NoWill)), ts,
             Append(q, Job("thenable", self, Len(hs) + 1, 0, Undefined)),
             PRef(Len(hs) + 1))

\* createAsyncResultFrom(baseResult, callback) for the callback of map.
\* v1: AsyncResult.from(baseResult.then(...)): then makes an AsyncResult.
\* v0: AsyncResult.from(baseResult.toResult().then(...)).
createAsyncResultFrom(ver, m, hs, ts, q, baseResult, idx) ==
  IF ver = "v1"
  THEN LET out == Len(hs) + 1
           t == Then(m, Append(hs, NewHandle("AsyncResult", NoWill)), ts, q,
                     Job("map", baseResult, out, idx, Undefined))
       IN AsyncResult_from(ver, t.mem, t.handles, t.tasks, t.queue, ARef(out))
  ELSE LET p == toResult(m, hs, ts, q, baseResult)
           out == Len(p.handles) + 1
           t == Then(m, Append(p.handles, NewHandle("Promise", NoWill)), p.tasks,
                     p.queue, Job("map", p.ret.n, out, idx, Undefined))
       IN AsyncResult_from(ver, t.mem, t.handles, t.tasks, t.queue, PRef(out))

\* map(callback): createAsyncResultFrom(this, (res) =>
\*   flattenResultPromise(res.map(callback)))
AsyncResult_map(ver, m, hs, ts, q, self, idx) ==
  createAsyncResultFrom(ver, m, hs, ts, q, self, idx)

\* tap(callback) / tapErr(callback).
\* v1: super.then((res) => res.ok && callback(res._val)); return this;
\* v0: this.toResult().then(...); return this;
\* The promise then returns is dropped and is not kept here.
AsyncResult_tap(ver, fn, m, hs, ts, q, self, idx) ==
  IF ver = "v1"
  THEN [Then(m, hs, ts, q, Job(fn, self, 0, idx, Undefined)) EXCEPT !.ret = ARef(self)]
  ELSE LET p == toResult(m, hs, ts, q, self)
       IN [Then(p.mem, p.handles, p.tasks, p.queue, Job(fn, p.ret.n, 0, idx, Undefined))
             EXCEPT !.ret = ARef(self)]

\* the reaction of map with the Result res: res.map(callback) and
\* flattenResultPromise, which makes a new Ok / Err of the payload.  In v1
\* flattenResultPromise returns a fulfilled promise; in v0 it awaits the
\* payload first and the new Result is made by a later job.
MapReaction(ver, m, hs, ts, q, j) ==
  LET res == hs[j.results[1].n].value.n
      r == Call_map(m, res, Fn("inc"))
      a == IF r.mem.heap[r.ret.n].ok THEN AllocOk(r.mem, r.mem.heap[r.ret.n].val)
           ELSE AllocErr(r.mem, r.mem.heap[r.ret.n].val)
      pf == Len(hs) + 1
  IN IF ver = "v1"
     THEN AsyncState(a.mem, Append(hs, Fulfilled("Promise", Ref(a.id))), ts,
                     Append(q, Job("thenable", pf, j.out, 0, Undefined)), Undefined)
     ELSE AsyncState(r.mem, Append(hs, NewHandle("Promise", NoWill)), ts,
                     q \o <<Job("flatten", pf, pf, 0, r.ret),
                            Job("thenable", pf, j.out, 0, Undefined)>>, Undefined)

\* v0 flattenResultPromise after its await: return Ok(val) / Err(val)
FlattenReaction(m, hs, ts, q, j) ==
  LET a == IF m.heap[j.val.n].ok THEN AllocOk(m, m.heap[j.val.n].val)
           ELSE AllocErr(m, m.heap[j.val.n].val)
  IN Settle(a.mem, hs, ts, q, j.out, Ref(a.id))

\* one job of the queue, the queue without it being q
RunReaction(ver, m, hs, ts, q, j) ==
  CASE j.fn = "thenable" ->
         Then(m, hs, ts, q, Job("follow", j.results[1].n, j.out, 0, Undefined))
    [] j.fn = "follow" -> Settle(m, hs, ts, q, j.out, hs[j.results[1].n].value)
    [] j.fn = "map" -> MapReaction(ver, m, hs, ts, q, j)
    [] j.fn = "flatten" -> FlattenReaction(m, hs, ts, q, j)
    [] j.fn \in {"tap", "tapErr"} -> AsyncState(m, hs, ts, q, Undefined)

\* res.ok && callback(res._val) / res.err && callback(res._val): the calls
\* of the tap callback the job j makes
TapCalls(m, hs, j) ==
  LET res == m.heap[hs[j.results[1].n].value.n]
  IN IF (j.fn = "tap" /\ res.ok) \/ (j.fn = "tapErr" /\ res.err)
     THEN <<[idx |-> j.idx, arg |-> res.val]>>
     ELSE <<>>

\* v0 AsyncResult.ok(val) / err(val):
\* new AsyncResult(Promise.resolve(Ok(val)))
AsyncResult_ok_v0(m, hs, ok, val) ==
  LET a == IF ok THEN OkFactory(m, val) ELSE ErrFactory(m, val)
  IN [mem |-> a.mem, handles |-> Append(hs, Fulfilled("AsyncResult", Ref(a.id))),
      ret |-> ARef(Len(hs) + 1)]

(***************************************************************************)
(* SpecAsync: the program makes one AsyncResult h, from a Result with      *)
(* AsyncResult.from or with AsyncResult.ok / err, and declares a chain of  *)
(* tap, tapErr, map and AsyncResult.from calls on it, each on what the     *)
(* call before returned.  The jobs of the queue run between or after the   *)
(* program's calls, and the payload handed to AsyncResult.ok / err arrives *)
(* at any time.                                                            *)
(***************************************************************************)
MaxChain == 3

ChainOps == {"tap", "tapErr", "map", "from"}

AsyncInputs ==
  [ok : BOOLEAN, val : Numbers, src : {"from", "ok"}, ver : {"v1", "v0"},
   chain : UNION {[1 .. n -> ChainOps] : n \in 1 .. MaxChain}]

AsyncInit ==
  /\ opts = <<NewNone>>
  /\ last = Idle
  /\ pc = "root"
  /\ input \in AsyncInputs
  /\ LET a == IF input.ok THEN OkFactory(Mem(<<>>, <<>>), input.val)
              ELSE ErrFactory(Mem(<<>>, <<>>), input.val)
     IN IF input.src = "from"
        THEN heap = a.mem.heap /\ stacks = a.mem.stacks
        ELSE heap = <<>> /\ stacks = <<>>
  /\ regs = [root |-> 0, cur |-> 0, i |-> 0, queue |-> <<>>, log |-> <<>>,
             recv |-> <<>>, rets |-> <<>>]
  /\ handles = <<>>
  /\ tasks = <<>>

\* h = AsyncResult.from(r) / AsyncResult.ok(val) / AsyncResult.err(val)
MakeRoot ==
  /\ pc = "root"
  /\ LET m == Mem(heap, stacks)
         st == IF input.src = "from"
               THEN AsyncResult_from(input.ver, m, handles, tasks, regs.queue, Ref(1))
               ELSE IF input.ver = "v0"
               THEN LET o == AsyncResult_ok_v0(m, handles, input.ok, input.val)
                    IN AsyncState(o.mem, o.handles, tasks, regs.queue, o.ret)
               ELSE LET o == IF input.ok THEN AsyncResult_ok(handles, input.val)
                             ELSE AsyncResult_err(handles, input.val)
                    IN AsyncState(m, o.handles, tasks, regs.queue, o.ret)
     IN /\ heap' = st.mem.heap
        /\ stacks' = st.mem.stacks
        /\ handles' = st.handles
        /\ tasks' = st.tasks
        /\ regs' = [regs EXCEPT !.root = st.ret.n, !.cur = st.ret.n,
                                !.queue = st.queue]
  /\ pc' = "chain"
  /\ UNCHANGED <<opts, last, input>>

\* the next call of the chain, on what the call before returned
ChainCall(op, st) ==
  /\ pc = "chain"
  /\ input.chain[regs.i + 1] = op
  /\ heap' = st.mem.heap
  /\ stacks' = st.mem.stacks
  /\ handles' = st.handles
  /\ tasks' = st.tasks
  /\ regs' = [regs EXCEPT !.cur = st.ret.n, !.i = @ + 1, !.queue = st.queue,
                          !.recv = Append(@, regs.cur),
                          !.rets = Append(@, st.ret)]
  /\ pc' = IF regs.i + 1 = Len(input.chain) THEN "done" ELSE "chain"
  /\ UNCHANGED <<opts, last, input>>

ChainTap ==
  ChainCall("tap", AsyncResult_tap(input.ver, "tap", Mem(heap, stacks), handles,
                                   tasks, regs.queue, regs.cur, regs.i + 1))

ChainTapErr ==
  ChainCall("tapErr", AsyncResult_tap(input.ver, "tapErr", Mem(heap, stacks),
                                      handles, tasks, regs.queue, regs.cur,
                                      regs.i + 1))

ChainMap ==
  ChainCall("map", AsyncResult_map(input.ver, Mem(heap, stacks), handles, tasks,
                                   regs.queue, regs.cur, regs.i + 1))

ChainFrom ==
  ChainCall("from", AsyncResult_from(input.ver, Mem(heap, stacks), handles, tasks,
                                     regs.queue, ARef(regs.cur)))

\* the payload of AsyncResult.ok(val) / err(val) arrives:
\* Promise.resolve(val).then((v) => resolve(new Ok(v)))
Deliver ==
  \E h \in DOMAIN handles :
    /\ handles[h].state = "pending"
    /\ handles[h].will # NoWill
    /\ LET w == handles[h].will
           a == IF w.ok THEN AllocOk(Mem(heap, stacks), w.val)
                ELSE AllocErr(Mem(heap, stacks), w.val)
           st == Settle(a.mem, handles, tasks, regs.queue, h, Ref(a.id))
       IN /\ heap' = st.mem.heap
          /\ stacks' = st.mem.stacks
          /\ handles' = st.handles
          /\ tasks' = st.tasks
          /\ regs' = [regs EXCEPT !.queue = st.queue]
    /\ UNCHANGED <<opts, last, pc, input>>

\* the first job of the queue runs; a call of a tap callback is logged with
\* its position in the chain, its argument, and whether the AsyncResult it
\* was declared on is fulfilled
RunJob ==
  /\ regs.queue # <<>>
  /\ LET j == Head(regs.queue)
         st == RunReaction(input.ver, Mem(heap, stacks), handles, tasks,
                           Tail(regs.queue), j)
         calls == IF j.fn \in {"tap", "tapErr"}
                  THEN TapCalls(Mem(heap, stacks), handles, j) ELSE <<>>
     IN /\ heap' = st.mem.heap
        /\ stacks' = st.mem.stacks
        /\ handles' = st.handles
        /\ tasks' = st.tasks
        /\ regs' = [regs EXCEPT
                      !.queue = st.queue,
                      !.log = @ \o [k \in 1 .. Len(calls) |->
                                      [idx |-> calls[k].idx, arg |-> calls[k].arg,
                                       resolved |->
                                         handles[regs.recv[calls[k].idx]].state
                                           = "fulfilled"]]]
  /\ UNCHANGED <<opts, last, pc, input>>

AsyncNext ==
  \/ MakeRoot
  \/ ChainTap
  \/ ChainTapErr
  \/ ChainMap
  \/ ChainFrom
  \/ Deliver
  \/ RunJob

SpecAsync == AsyncInit /\ [][AsyncNext]_vars

\* the Result promise h is fulfilled with
Resolved(h) == heap[handles[h].value.n]

IsFulfilled(h) == handles[h].state = "fulfilled"

\* C19: AsyncResult.from(r) for a Result r is fulfilled with r itself, of
\* the case and payload r was made with; AsyncResult.from(h) for an
\* AsyncResult h returns h and makes no promise; no promise is ever
\* fulfilled with a promise; map(f) on an AsyncResult fulfilled with Ok(v)
\* returns an AsyncResult that is fulfilled with an Ok of f(v).
C19_AsyncRoundTrip ==
  /\ (input.src = "from" /\ pc # "root" /\ IsFulfilled(regs.root)) =>
       /\ handles[regs.root].value = Ref(1)
       /\ Resolved(regs.root).ok = input.ok
       /\ Resolved(regs.root).val = input.val
  /\ \A h \in DOMAIN handles :
       /\ handles[h].state # "rejected"
       /\ IsFulfilled(h) => handles[h].value.t = "ref"
  /\ \A i \in 1 .. regs.i :
       /\ input.chain[i] = "from" => regs.rets[i] = ARef(regs.recv[i])
       /\ regs.rets[i].t = "async"
       /\ handles[regs.rets[i].n].cls = "AsyncResult"
       /\ (input.chain[i] = "map" /\ IsFulfilled(regs.rets[i].n)) =>
            /\ regs.rets[i].n # regs.recv[i]
            /\ IsFulfilled(regs.recv[i])
            /\ Resolved(regs.recv[i]).ok =>
                 /\ Resolved(regs.rets[i].n).ok
                 /\ Resolved(regs.rets[i].n).val
                      = ApplyPrim("inc", Resolved(regs.recv[i]).val)

\* AsyncResult.from(Ok(v)), from again, then map: the mapped AsyncResult is
\* fulfilled
C19_Witness ==
  /\ input.src = "from"
  /\ input.ok
  /\ regs.i >= 2
  /\ input.chain[1] = "from"
  /\ input.chain[2] = "map"
  /\ regs.rets[1] = ARef(regs.root)
  /\ IsFulfilled(regs.rets[2].n)
  /\ Resolved(regs.rets[2].n).ok

\* the call at position i of the chain is a tap whose case is the case the
\* AsyncResult has
Matching(i) ==
  \/ input.chain[i] = "tap" /\ input.ok
  \/ input.chain[i] = "tapErr" /\ ~input.ok

\* every job has run and every promise is settled
Quiescent ==
  /\ pc = "done"
  /\ regs.queue = <<>>
  /\ tasks = <<>>

\* C20: in a chain of tap / tapErr / map calls on one AsyncResult, the tap
\* callbacks run in the order of their calls in the chain, each at most
\* once and, when everything has run, each matching one exactly once and no
\* other; a callback runs only when the AsyncResult it was declared on is
\* fulfilled, and it gets the payload.
C20_TapOrder ==
  /\ \A k \in 1 .. Len(regs.log) :
       /\ regs.log[k].resolved
       /\ Matching(regs.log[k].idx)
       /\ regs.log[k].idx <= regs.i
       /\ regs.log[k].arg = Resolved(regs.recv[regs.log[k].idx]).val
       /\ k > 1 => regs.log[k - 1].idx < regs.log[k].idx
  /\ Quiescent =>
       {regs.log[k].idx : k \in 1 .. Len(regs.log)}
         = {i \in 1 .. Len(input.chain) : Matching(i)}

\* h.tap(a).map(f).tap(b) on an Ok: a and b have both run, in this order
C20_Witness ==
  /\ Quiescent
  /\ input.ok
  /\ input.chain = <<"tap", "map", "tap">>
  /\ Len(regs.log) = 2
  /\ regs.log[1].idx = 1
  /\ regs.log[2].idx = 3

(***************************************************************************)
(* Properties of SpecTrace on mapErr and replaceErr.                       *)
(***************************************************************************)
\* the step is a call of op on an Err
ErrCall(op) == last'.op = op /\ heap[last'.recv].err

\* the step leaves its receiver with the error and the trace it had
ReceiverKept ==
  /\ heap'[last'.recv] = heap[last'.recv]
  /\ stacks'[heap[last'.recv].stack] = stacks[heap[last'.recv].stack]

MapErrRule ==
  ErrCall("mapErr") =>
    /\ last'.ret = Ref(Len(heap) + 1)
    /\ Len(heap') = Len(heap) + 1
    /\ heap'[last'.ret.n].err
    /\ heap'[last'.ret.n].val = ApplySeq(last'.cb.f, heap[last'.recv].val)
    /\ stacks'[heap'[last'.ret.n].stack] = stacks[heap[last'.recv].stack]
    /\ last'.calls = <<[cb |-> last'.cb, arg |-> heap[last'.recv].val]>>
    /\ ReceiverKept

\* C25: mapErr on an Err with error e and trace T returns a new Err holding
\* f(e) whose trace equals T, invoking f exactly once with e, and the
\* receiver still holds e and T.
C25_MapErrKeepsTrace == [][MapErrRule]_vars

\* mapErr has been called on an Err that was traced, and returned another
\* Err with the same one-tag trace
C25_Witness ==
  /\ last.op = "mapErr"
  /\ heap[last.recv].err
  /\ Len(TraceOf(last.recv)) = 1
  /\ last.ret.n # last.recv
  /\ TraceOf(last.ret.n) = TraceOf(last.recv)
  /\ Len(last.calls) = 1

ReplaceErrRule ==
  ErrCall("replaceErr") =>
    /\ last'.ret = Ref(Len(heap) + 1)
    /\ Len(heap') = Len(heap) + 1
    /\ heap'[last'.ret.n].err
    /\ heap'[last'.ret.n].val = last'.arg
    /\ stacks'[heap'[last'.ret.n].stack] = <<>>
    /\ last'.calls = <<>>
    /\ ReceiverKept

\* C30: replaceErr(v) on an Err with trace T returns a new Err holding v
\* whose trace is empty, and the receiver keeps its error and T.
C30_ReplaceErrDropsTrace == [][ReplaceErrRule]_vars

\* replaceErr has been called on a traced Err and returned an Err without
\* trace
C30_Witness ==
  /\ last.op = "replaceErr"
  /\ heap[last.recv].err
  /\ TraceOf(last.recv) # <<>>
  /\ last.ret.n # last.recv
  /\ TraceOf(last.ret.n) = <<>>

(***************************************************************************)
(* Properties of SpecAgg on the empty array.                               *)
(***************************************************************************)
\* C29: on an empty array all returns an Ok holding an empty list,
\* partition a pair of two empty lists, values and errValues an empty list;
\* none of them makes a promise or leaves a continuation.
C29_EmptyStaysSync ==
  (pc = "done" /\ input.list = <<>>) =>
    /\ regs.all.t = "ref"
    /\ heap[regs.all.n].ok
    /\ heap[regs.all.n].val = List(<<>>)
    /\ regs.partition = List(<<List(<<>>), List(<<>>)>>)
    /\ regs.values = List(<<>>)
    /\ regs.errValues = List(<<>>)
    /\ handles = <<>>
    /\ tasks = <<>>

\* the four functions have been called on the empty array
C29_Witness ==
  /\ pc = "done"
  /\ input.list = <<>>
  /\ regs.results = <<>>
  /\ Len(heap) = 1
  /\ regs.all = Ref(1)

(***************************************************************************)
(* SpecUseOnce: a program that hands use a generator whose body mixes      *)
(* delegations to Results with plain yield statements, twice:              *)
(*   const f = function* () { ... yield* r; ... yield v; ... return [...] } *)
(*   const u = use(f); const u2 = use(f);                                  *)
(***************************************************************************)
OnceInputs ==
  UNION {[1 .. n -> [kind : {"ok", "err", "yield"}, val : Numbers]] :
           n \in 0 .. MaxBody}

\* the body of the generator: a Result per delegation, the value per yield
RECURSIVE BuildSteps(_, _, _, _)
BuildSteps(list, i, m, items) ==
  IF i > Len(list) THEN [mem |-> m, items |-> items]
  ELSE IF list[i].kind = "yield"
  THEN BuildSteps(list, i + 1, m, Append(items, list[i].val))
  ELSE LET a == IF list[i].kind = "ok" THEN OkFactory(m, list[i].val)
                ELSE ErrFactory(m, list[i].val)
       IN BuildSteps(list, i + 1, a.mem, Append(items, Ref(a.id)))

OnceInit ==
  /\ last = Idle
  /\ pc = "use"
  /\ input \in [body : OnceInputs]
  /\ opts = <<NewNone>>
  /\ handles = <<>>
  /\ tasks = <<>>
  /\ LET b == BuildSteps(input.body, 1, Mem(<<>>, <<>>), <<>>)
     IN /\ heap = b.mem.heap
        /\ stacks = b.mem.stacks
        /\ regs = [body |-> b.items, before |-> Len(b.mem.heap),
                   u |-> Undefined, gen |-> NewFrame(<<>>), threw |-> "",
                   u2 |-> Undefined, gen2 |-> NewFrame(<<>>), threw2 |-> ""]

UseFirst ==
  /\ pc = "use"
  /\ LET out == use(Mem(heap, stacks), regs.body)
     IN /\ heap' = out.mem.heap
        /\ stacks' = out.mem.stacks
        /\ regs' = [regs EXCEPT !.u = out.ret, !.gen = out.gen, !.threw = out.threw]
  /\ pc' = "again"
  /\ UNCHANGED <<opts, last, input, asyncVars>>

UseAgain ==
  /\ pc = "again"
  /\ LET out == use(Mem(heap, stacks), regs.body)
     IN /\ heap' = out.mem.heap
        /\ stacks' = out.mem.stacks
        /\ regs' = [regs EXCEPT !.u2 = out.ret, !.gen2 = out.gen,
                                !.threw2 = out.threw]
  /\ pc' = "done"
  /\ UNCHANGED <<opts, last, input, asyncVars>>

OnceNext ==
  \/ UseFirst
  \/ UseAgain

SpecUseOnce == OnceInit /\ [][OnceNext]_vars

\* the statements of the body at which its first step ends: a plain yield
\* or the delegation of an Err
Stops == {i \in 1 .. Len(input.body) : input.body[i].kind # "ok"}

\* what one call of use must leave: next() called once, nothing thrown, a
\* new Err of what the first step yielded with the body run up to that
\* statement only, or a new Ok of what the body returned
OnceRule(u, g, threw) ==
  /\ g.nexts = 1
  /\ threw = ""
  /\ u.t = "ref"
  /\ u.n > regs.before
  /\ IF Stops # {}
     THEN LET first == CHOOSE i \in Stops : \A j \in Stops : i <= j
          IN /\ heap[u.n].err
             /\ heap[u.n].val = input.body[first].val
             /\ g.executed = [i \in 1 .. first |-> i]
     ELSE /\ heap[u.n].ok
          /\ heap[u.n].val = List([i \in 1 .. Len(input.body) |-> input.body[i].val])
          /\ g.executed = [i \in 1 .. Len(input.body) + 1 |-> i]

\* C26: each call of use calls next() on its generator exactly once and
\* returns after that step, an Err of whatever the step yielded or an Ok of
\* what the body returned; the generator is not resumed, so no statement
\* after the first yield runs and YieldError is never thrown.
C26_UseOneStep ==
  /\ pc \in {"again", "done"} => OnceRule(regs.u, regs.gen, regs.threw)
  /\ pc = "done" =>
       /\ OnceRule(regs.u2, regs.gen2, regs.threw2)
       /\ regs.u2 # regs.u

\* use ran a body that delegates an Ok, yields 0 and then delegates an Err:
\* it returned an Err of 0 after one next()
C26_Witness ==
  /\ pc = "done"
  /\ Len(input.body) = 3
  /\ input.body[1].kind = "ok"
  /\ input.body[2] = [kind |-> "yield", val |-> Num(0)]
  /\ input.body[3].kind = "err"
  /\ heap[regs.u.n].err
  /\ heap[regs.u.n].val = Num(0)
  /\ regs.gen.nexts = 1
  /\ regs.gen.executed = <<1, 2>>

(***************************************************************************)
(* SpecWrapResult: the program holds one Result or AsyncResult r and calls *)
(* wrap(() => r) and proxy(() => r)(x) as its script says, while r, when   *)
(* it is an AsyncResult, is fulfilled at any time.                         *)
(***************************************************************************)
\* the calls of a script on the captured value r
ConstEntries(r) ==
  {[via |-> "wrap", kind |-> "const", arg |-> Undefined, val |-> r]}
    \cup {[via |-> "proxy", kind |-> "const", arg |-> x, val |-> r] : x \in Numbers}

WrapResultInit ==
  /\ opts = <<NewNone>>
  /\ last = Idle
  /\ pc = "call"
  /\ \E ok \in BOOLEAN, v \in Numbers, async \in BOOLEAN :
       /\ input \in {[ok |-> ok, val |-> v, async |-> async, script |-> sc] :
                       sc \in UNION {[1 .. n -> ConstEntries(IF async THEN ARef(1)
                                                            ELSE Ref(1))] :
                                       n \in 1 .. MaxCalls}}
       /\ IF async
          THEN /\ heap = <<>>
               /\ stacks = <<>>
               /\ handles = (IF ok THEN AsyncResult_ok(<<>>, v)
                             ELSE AsyncResult_err(<<>>, v)).handles
          ELSE LET a == IF ok THEN OkFactory(Mem(<<>>, <<>>), v)
                        ELSE ErrFactory(Mem(<<>>, <<>>), v)
               IN /\ heap = a.mem.heap
                  /\ stacks = a.mem.stacks
                  /\ handles = <<>>
  /\ regs = [rets |-> <<>>, calls |-> <<>>]
  /\ tasks = <<>>

WrapResultNext ==
  \/ CallWrap
  \/ CallProxy
  \/ ResolveElem
  \/ WrapThen

SpecWrapResult == WrapResultInit /\ [][WrapResultNext]_vars

\* C27: when the function handed to wrap or proxy returns a Result, the
\* call returns a Result of the same case and payload, and when it returns
\* an AsyncResult, an AsyncResult that is fulfilled with a Result of the
\* case and payload that one is fulfilled with; not an Ok holding the
\* Result.
C27_ResultUnchanged ==
  \A k \in 1 .. Len(regs.rets) :
    LET ret == regs.rets[k]
    IN IF input.async
       THEN /\ ret.t = "async"
            /\ handles[ret.n].state = "fulfilled" =>
                 /\ heap[handles[ret.n].value.n].ok = input.ok
                 /\ heap[handles[ret.n].value.n].val = input.val
       ELSE /\ ret.t = "ref"
            /\ heap[ret.n].ok = input.ok
            /\ heap[ret.n].val = input.val

(***************************************************************************)
(* class AsyncResult: map, mapErr, replace, replaceErr, try, tryRecover    *)
(* and lazyOr with callbacks and values that may be pending.  Each is      *)
(* createAsyncResultFrom(this, reaction); the reaction runs as a job once  *)
(* the receiver is fulfilled.  job.val is the callback (its kind k, as in  *)
(* Callback_call) or, for replace / replaceErr, the value handed in.       *)
(***************************************************************************)
PayloadOps == {"map", "mapErr", "replace", "replaceErr"}

ResultOps == {"try", "tryRecover", "lazyOr"}

\* createAsyncResultFrom(baseResult, callback) for the reaction fn
createAsyncResultFromJob(ver, m, hs, ts, q, baseResult, fn, val) ==
  IF ver = "v1"
  THEN LET out == Len(hs) + 1
           t == Then(m, Append(hs, NewHandle("AsyncResult", NoWill)), ts, q,
                     Job(fn, baseResult, out, 1, val))
       IN AsyncResult_from(ver, t.mem, t.handles, t.tasks, t.queue, ARef(out))
  ELSE LET p == toResult(m, hs, ts, q, baseResult)
           out == Len(p.handles) + 1
           t == Then(m, Append(p.handles, NewHandle("Promise", NoWill)), p.tasks,
                     p.queue, Job(fn, p.ret.n, out, 1, val))
       IN AsyncResult_from(ver, t.mem, t.handles, t.tasks, t.queue, PRef(out))

\* what running a job gives: the state and the arguments of the callback
\* invocations it made
Ran(st, calls) ==
  [mem |-> st.mem, handles |-> st.handles, tasks |-> st.tasks,
   queue |-> st.queue, calls |-> calls]

\* flattenResultPromise(r), its promise then resolving the promise out.
\* v1: if (res.ok) return new Ok(res._val as Awaited<A>);
\*     else return new Err(res._val as Awaited<B>);
\*     the payload is handed on as it is, the promise is fulfilled at once.
\* v0: const val = await res.val; then Ok(val) / Err(val): the function
\*     continues in a later job, after the payload when that is a Promise.
flattenResultPromise(ver, m, hs, ts, q, r, out) ==
  LET payload == m.heap[r.n].val
      pf == Len(hs) + 1
      hs1 == Append(hs, NewHandle("Promise", NoWill))
  IN IF ver = "v1"
     THEN LET a == IF m.heap[r.n].ok THEN AllocOk(m, payload)
                   ELSE AllocErr(m, payload)
          IN AsyncState(a.mem, Append(hs, Fulfilled("Promise", Ref(a.id))), ts,
                        Append(q, Job("thenable", pf, out, 0, Undefined)),
                        Undefined)
     ELSE LET t == IF payload.t = "promise"
                   THEN Then(m, hs1, ts, q, Job("awaited", payload.n, pf, 0, r))
                   ELSE AsyncState(m, hs1, ts,
                                   Append(q, Job("flatten", pf, pf, 0, r)),
                                   Undefined)
          IN AsyncState(t.mem, t.handles, t.tasks,
                        Append(t.queue, Job("thenable", pf, out, 0, Undefined)),
                        Undefined)

\* flattenResultPromise after its await of a Promise payload:
\* Ok(val) / Err(val) with the value the Promise was fulfilled with
AwaitedReaction(m, hs, ts, q, j) ==
  LET val == hs[j.results[1].n].value
      a == IF m.heap[j.val.n].ok THEN AllocOk(m, val) ELSE AllocErr(m, val)
  IN Settle(a.mem, hs, ts, q, j.out, Ref(a.id))

\* (res) => flattenResultPromise(res.map(callback)) and the same of mapErr.
\* Ok.map / Err.mapErr: new Ok(callback(this._val)) /
\* new Err(callback(this._val), this._stack) (v0: Err(callback(this.val)));
\* Err.map / Ok.mapErr: return this.
MapJob(ver, m, hs, ts, q, j) ==
  LET res == hs[j.results[1].n].value.n
  IN IF (j.fn = "map") = m.heap[res].ok
     THEN LET c == Callback_call(m, hs, j.val, m.heap[res].val)
              a == IF m.heap[res].ok THEN AllocOk(c.mem, c.ret)
                   ELSE IF ver = "v1"
                   THEN AllocErrWith(c.mem, c.ret, m.heap[res].stack)
                   ELSE AllocErr(c.mem, c.ret)
          IN Ran(flattenResultPromise(ver, a.mem, c.handles, ts, q, Ref(a.id),
                                      j.out),
                 <<m.heap[res].val>>)
     ELSE Ran(flattenResultPromise(ver, m, hs, ts, q, Ref(res), j.out), <<>>)

\* (res) => flattenResultPromise(res.replace(val)) and the same of
\* replaceErr.  Ok.replace / Err.replaceErr: new Ok(val) / new Err(val);
\* Err.replace / Ok.replaceErr: return this.
ReplaceJob(ver, m, hs, ts, q, j) ==
  LET res == hs[j.results[1].n].value.n
  IN IF (j.fn = "replace") = m.heap[res].ok
     THEN LET a == IF m.heap[res].ok THEN AllocOk(m, j.val) ELSE AllocErr(m, j.val)
          IN Ran(flattenResultPromise(ver, a.mem, hs, ts, q, Ref(a.id), j.out),
                 <<>>)
     ELSE Ran(flattenResultPromise(ver, m, hs, ts, q, Ref(res), j.out), <<>>)

\* the reaction of try / tryRecover without its early return
TryJob_noGuard(ver, m, hs, ts, q, j) ==
  LET res == hs[j.results[1].n].value.n
      c == Callback_call(m, hs, j.val, m.heap[res].val)
      pa == Len(c.handles) + 1
      hs1 == Append(c.handles, NewHandle("Promise", NoWill))
      w == IF c.ret.t = "ref" \/ (ver = "v0" /\ c.ret.t = "async")
           THEN AsyncState(c.mem, hs1, ts,
                           Append(q, Job("resume", pa, pa, 0, c.ret)), Undefined)
           ELSE Then(c.mem, hs1, ts, q, Job("resume", c.ret.n, pa, 0, Undefined))
  IN Ran(AsyncState(w.mem, w.handles, w.tasks,
                    Append(w.queue, Job("thenable", pa, j.out, 0, Undefined)),
                    Undefined),
         <<m.heap[res].val>>)

\* async (res) => { if (res.err) return res;
\*                  return toPromiseResult(await callback(res.unwrap())); }
\* and the same of tryRecover with res.ok and unwrapErr.  The promise pa of
\* the async function resolves the promise out.  The await continues in a
\* later job: after the Promise awaited (an AsyncResult is one in v1), or
\* in the next job for a Result and for a v0 AsyncResult, which has no then.
TryJob(ver, m, hs, ts, q, j) ==
  LET res == hs[j.results[1].n].value.n
      skip == IF j.fn = "try" THEN m.heap[res].err ELSE m.heap[res].ok
      c == Callback_call(m, hs, j.val, m.heap[res].val)
      pa == Len(c.handles) + 1
      hs1 == Append(c.handles, NewHandle("Promise", NoWill))
      w == IF c.ret.t = "ref" \/ (ver = "v0" /\ c.ret.t = "async")
           THEN AsyncState(c.mem, hs1, ts,
                           Append(q, Job("resume", pa, pa, 0, c.ret)), Undefined)
           ELSE Then(c.mem, hs1, ts, q, Job("resume", c.ret.n, pa, 0, Undefined))
  IN IF skip
     THEN Ran(AsyncState(m, Append(hs, Fulfilled("Promise", Ref(res))), ts,
                         Append(q, Job("thenable", Len(hs) + 1, j.out, 0,
                                       Undefined)),
                         Undefined),
              <<>>)
     ELSE Ran(AsyncState(w.mem, w.handles, w.tasks,
                         Append(w.queue, Job("thenable", pa, j.out, 0, Undefined)),
                         Undefined),
              <<m.heap[res].val>>)

\* try / tryRecover after the await: return toPromiseResult(awaited).
\* v1: Promise.resolve(result); v0 for an AsyncResult: res.toResult().
\* Returning a promise from the async function resolves pa with it.
ResumeJob(ver, m, hs, ts, q, j) ==
  LET awaited == IF j.val = Undefined THEN hs[j.results[1].n].value ELSE j.val
  IN IF awaited.t = "async"
     THEN LET p == toResult(m, hs, ts, q, awaited.n)
          IN Ran(AsyncState(p.mem, p.handles, p.tasks,
                            Append(p.queue, Job("thenable", p.ret.n, j.out, 0,
                                                Undefined)),
                            Undefined),
                 <<>>)
     ELSE Ran(AsyncState(m, Append(hs, Fulfilled("Promise", awaited)), ts,
                         Append(q, Job("thenable", Len(hs) + 1, j.out, 0,
                                       Undefined)),
                         Undefined),
              <<>>)

\* (res) => res.ok ? res : toPromiseResult(callback()), handed to
\* toPromiseResult again by createAsyncResultFrom: an AsyncResult or a
\* Promise goes on as it is, a Result through Promise.resolve
LazyOrJob(ver, m, hs, ts, q, j) ==
  LET res == hs[j.results[1].n].value.n
      c == Callback_call(m, hs, j.val, Undefined)
      src == IF c.ret.t = "ref" THEN Len(c.handles) + 1 ELSE c.ret.n
      hs1 == IF c.ret.t = "ref" THEN Append(c.handles, Fulfilled("Promise", c.ret))
             ELSE c.handles
  IN IF m.heap[res].ok
     THEN Ran(AsyncState(m, Append(hs, Fulfilled("Promise", Ref(res))), ts,
                         Append(q, Job("thenable", Len(hs) + 1, j.out, 0,
                                       Undefined)),
                         Undefined),
              <<>>)
     ELSE Ran(AsyncState(c.mem, hs1, ts,
                         Append(q, Job("thenable", src, j.out, 0, Undefined)),
                         Undefined),
              <<Undefined>>)

\* one job of a combinator, the queue without it being q
CombReaction(ver, m, hs, ts, q, j) ==
  CASE j.fn \in {"map", "mapErr"} -> MapJob(ver, m, hs, ts, q, j)
    [] j.fn \in {"replace", "replaceErr"} -> ReplaceJob(ver, m, hs, ts, q, j)
    [] j.fn \in {"try", "tryRecover"} -> TryJob(ver, m, hs, ts, q, j)
    [] j.fn = "lazyOr" -> LazyOrJob(ver, m, hs, ts, q, j)
    [] j.fn = "resume" -> ResumeJob(ver, m, hs, ts, q, j)
    [] j.fn = "awaited" -> Ran(AwaitedReaction(m, hs, ts, q, j), <<>>)

(***************************************************************************)
(* SpecComb: the program makes h = AsyncResult.ok(v) or AsyncResult.err(v) *)
(* and calls one combinator on it, with a callback returning a plain       *)
(* value, a Promise, a Result or an AsyncResult, or with a value that is   *)
(* plain or a Promise.  The payload of h, the Promises and the AsyncResults*)
(* the callback made are fulfilled at any time; the jobs run in order.     *)
(***************************************************************************)
PayloadKinds == {"scalar", "promiseRaw"}

ResultKinds == {"mkOk", "mkErr", "promiseOk", "asyncOk", "asyncErr"}

\* v0 has no lazyOr
CombInputs ==
  {[ok |-> ok, val |-> v, src |-> "ok", ver |-> ver, chain |-> <<op>>,
    cb |-> [k |-> k]] :
     ok \in BOOLEAN, v \in Numbers, ver \in {"v1", "v0"},
     op \in PayloadOps \cup ResultOps, k \in PayloadKinds \cup ResultKinds}

CombInit ==
  /\ opts = <<NewNone>>
  /\ last = Idle
  /\ pc = "root"
  /\ input \in {i \in CombInputs :
                  /\ (i.chain[1] \in PayloadOps) = (i.cb.k \in PayloadKinds)
                  /\ i.chain[1] = "lazyOr" => i.ver = "v1"}
  /\ heap = <<>>
  /\ stacks = <<>>
  /\ regs = [root |-> 0, cur |-> 0, i |-> 0, queue |-> <<>>, log |-> <<>>,
             recv |-> <<>>, rets |-> <<>>]
  /\ handles = <<>>
  /\ tasks = <<>>

\* h.map(callback), h.try(callback), ...: the callback is handed over
CombCallback ==
  \E op \in {"map", "mapErr"} \cup ResultOps :
    ChainCall(op, createAsyncResultFromJob(input.ver, Mem(heap, stacks), handles,
                                           tasks, regs.queue, regs.cur, op,
                                           input.cb))

\* h.replace(val) / h.replaceErr(val), val a plain value or a Promise that
\* is still pending
CombValue ==
  \E op \in {"replace", "replaceErr"} :
    LET c == Callback_call(Mem(heap, stacks), handles, input.cb, input.val)
    IN ChainCall(op, createAsyncResultFromJob(input.ver, c.mem, c.handles, tasks,
                                              regs.queue, regs.cur, op, c.ret))

\* a producer delivers: the payload of AsyncResult.ok / err, the Result of
\* a Promise or AsyncResult the callback returned, or the plain value of a
\* Promise
CombDeliver ==
  \E h \in DOMAIN handles :
    /\ handles[h].state = "pending"
    /\ handles[h].will # NoWill
    /\ LET w == handles[h].will
           raw == IF "raw" \in DOMAIN w THEN w.raw ELSE FALSE
           a == IF w.ok THEN AllocOk(Mem(heap, stacks), w.val)
                ELSE AllocErr(Mem(heap, stacks), w.val)
           st == IF raw
                 THEN Settle(Mem(heap, stacks), handles, tasks, regs.queue, h, w.val)
                 ELSE Settle(a.mem, handles, tasks, regs.queue, h, Ref(a.id))
       IN /\ heap' = st.mem.heap
          /\ stacks' = st.mem.stacks
          /\ handles' = st.handles
          /\ tasks' = st.tasks
          /\ regs' = [regs EXCEPT !.queue = st.queue]
    /\ UNCHANGED <<opts, last, pc, input>>

\* the first job of the queue is a promise adopting another, or the end of
\* a v0 flattenResultPromise
RunPlainJob ==
  /\ regs.queue # <<>>
  /\ Head(regs.queue).fn \in {"thenable", "follow", "flatten"}
  /\ RunJob

\* the first job of the queue is a reaction of the combinator or the
\* continuation of one; the callback invocations are logged with whether
\* the AsyncResult the combinator was called on is fulfilled
RunCombJob ==
  /\ regs.queue # <<>>
  /\ Head(regs.queue).fn \notin {"thenable", "follow", "flatten"}
  /\ LET st == CombReaction(input.ver, Mem(heap, stacks), handles, tasks,
                            Tail(regs.queue), Head(regs.queue))
     IN /\ heap' = st.mem.heap
        /\ stacks' = st.mem.stacks
        /\ handles' = st.handles
        /\ tasks' = st.tasks
        /\ regs' = [regs EXCEPT
                      !.queue = st.queue,
                      !.log = @ \o [k \in 1 .. Len(st.calls) |->
                                      [idx |-> 1, arg |-> st.calls[k],
                                       resolved |->
                                         handles[regs.root].state = "fulfilled"]]]
  /\ UNCHANGED <<opts, last, pc, input>>

CombNext ==
  \/ MakeRoot
  \/ CombCallback
  \/ CombValue
  \/ CombDeliver
  \/ RunPlainJob
  \/ RunCombJob

SpecComb == CombInit /\ [][CombNext]_vars

\* the AsyncResult the combinator returned is fulfilled
CombDone == regs.rets # <<>> /\ IsFulfilled(regs.rets[1].n)

\* C21: the AsyncResult returned by map, mapErr, replace or replaceErr, once
\* fulfilled, holds a Result whose payload is not a Promise: a pending
\* value produced by the callback or handed in has been awaited.
C21_NeverDoublePending ==
  (CombDone /\ input.chain[1] \in PayloadOps)
    => Resolved(regs.rets[1].n).val.t # "promise"

\* the combinator called is a no-op on the Result h is fulfilled with
NoOpCase ==
  \/ ~input.ok /\ input.chain[1] \in {"map", "try"}
  \/ input.ok /\ input.chain[1] \in {"mapErr", "tryRecover", "lazyOr"}

\* C28: on an AsyncResult fulfilled with Err(e), map and try never invoke
\* the callback and return an AsyncResult fulfilled with Err(e); on one
\* fulfilled with Ok(v), mapErr, tryRecover and lazyOr never invoke the
\* callback and return an AsyncResult fulfilled with Ok(v); and no callback
\* is invoked before the AsyncResult it was called on is fulfilled.
C28_AsyncShortCircuit ==
  /\ \A k \in 1 .. Len(regs.log) : regs.log[k].resolved
  /\ NoOpCase =>
       /\ regs.log = <<>>
       /\ CombDone =>
            /\ Resolved(regs.rets[1].n).ok = input.ok
            /\ Resolved(regs.rets[1].n).val = input.val

\* try on an AsyncResult fulfilled with an Err, with a callback that would
\* return an AsyncResult, has been fulfilled
C28_Witness ==
  /\ CombDone
  /\ NoOpCase
  /\ input.chain[1] = "try"
  /\ input.cb.k = "asyncOk"

(***************************************************************************)
(* class Some / class None: the methods, and AsyncOption.toResult.  opts   *)
(* holds the Option instances, opts[1] being None; the payloads of this    *)
(* specification are never Promises, so Some.map and Some.tap take their   *)
(* synchronous branch.  A callback meant to return an Option is mkSome     *)
(* (returns Some(f(v))), const (returns the instance it captured), raw     *)
(* (returns the plain value f(v)) or asyncFn (an async function).          *)
(***************************************************************************)
\* what a call on an Option gives: the instances, the memory and promises
\* after it, the value returned, the callback invocations, the error thrown
OptOut(o, m, hs, ret, calls, threw) ==
  [opts |-> o, mem |-> m, handles |-> hs, ret |-> ret, calls |-> calls,
   threw |-> threw]

ExpectedOptionError(val) == [t |-> "ExpectedOptionError", n |-> 0, val |-> val]

\* callback(v) for a synchronous callback meant to return an Option
InvokeO(o, cb, v) ==
  IF cb.k = "mkSome"
  THEN [opts |-> Append(o, NewSome(ApplySeq(cb.f, v))), ret |-> ORef(Len(o) + 1),
        calls |-> <<[cb |-> cb, arg |-> v, ret |-> ORef(Len(o) + 1)]>>]
  ELSE IF cb.k = "const"
  THEN [opts |-> o, ret |-> ORef(cb.id),
        calls |-> <<[cb |-> cb, arg |-> v, ret |-> ORef(cb.id)]>>]
  ELSE [opts |-> o, ret |-> ApplySeq(cb.f, v),
        calls |-> <<[cb |-> cb, arg |-> v, ret |-> ApplySeq(cb.f, v)]>>]

\* isPromisefn(callback): callback?.constructor.name === "AsyncFunction"
isPromisefn(cb) == cb.k = "asyncFn"

\* const val = callback(this._val); return new Some(val);
Some_map(o, m, hs, self, cb) ==
  LET r == Invoke(cb, o[self].val)
  IN OptOut(Append(o, NewSome(r.val)), m, hs, ORef(Len(o) + 1), r.calls, "")

None_map(o, m, hs, self, cb) == OptOut(o, m, hs, ORef(self), <<>>, "")

\* callback(this._val); return this;
Some_tap(o, m, hs, self, cb) ==
  OptOut(o, m, hs, ORef(self), Invoke(cb, o[self].val).calls, "")

None_tap(o, m, hs, self, cb) == OptOut(o, m, hs, ORef(self), <<>>, "")

Some_or(o, m, hs, self, other) == OptOut(o, m, hs, ORef(self), <<>>, "")

None_or(o, m, hs, self, other) == OptOut(o, m, hs, other, <<>>, "")

Some_lazyOr(o, m, hs, self, cb) == OptOut(o, m, hs, ORef(self), <<>>, "")

\* return callback();
None_lazyOr(o, m, hs, self, cb) ==
  LET r == InvokeO(o, cb, Undefined)
  IN OptOut(r.opts, m, hs, r.ret, r.calls, "")

Some_unwrap(o, m, hs, self, fallback) ==
  OptOut(o, m, hs, o[self].val, <<>>, "")

None_unwrap(o, m, hs, self, fallback) == OptOut(o, m, hs, fallback, <<>>, "")

\* return Ok(this._val);
Some_toResult(o, m, hs, self, fallback) ==
  LET a == OkFactory(m, o[self].val)
  IN OptOut(o, a.mem, hs, Ref(a.id), <<>>, "")

\* return Err(fallback);
None_toResult(o, m, hs, self, fallback) ==
  LET a == ErrFactory(m, fallback)
  IN OptOut(o, a.mem, hs, Ref(a.id), <<>>, "")

\* AsyncOption.None: AsyncOption.from(Promise.resolve(None))
AsyncOption_None(hs) ==
  [handles |-> Append(hs, NewHandle("AsyncOption", [ok |-> FALSE, val |-> Undefined])),
   ret |-> ARef(Len(hs) + 1)]

\* try returning a new Some of the payload of the Option the callback
\* returned
AbstractOption_try_copies(o, m, hs, self, cb) ==
  IF o[self].none THEN OptOut(o, m, hs, ORef(self), <<>>, "")
  ELSE LET r == InvokeO(o, cb, o[self].val)
       IN IF r.ret.t = "oref"
          THEN OptOut(Append(r.opts, NewSome(r.opts[r.ret.n].val)), m, hs,
                      ORef(Len(r.opts) + 1), r.calls, "")
          ELSE OptOut(r.opts, m, hs, Undefined, r.calls,
                      ExpectedOptionError(r.ret))

\* if (this.none)
\*   if (isPromisefn(callback)) return AsyncOption.None; else return this;
\* const res = callback(this._val);
\* if (res instanceof Promise) return AsyncOption.from(res.then(validate));
\* else if (res instanceof AbstractOption) return res;
\* throw new ExpectedOptionError(res);
\* The async function returns a Promise of Some(f(v)).
AbstractOption_try(o, m, hs, self, cb) ==
  IF o[self].none
  THEN IF isPromisefn(cb)
       THEN LET a == AsyncOption_None(hs)
            IN OptOut(o, m, a.handles, a.ret, <<>>, "")
       ELSE OptOut(o, m, hs, ORef(self), <<>>, "")
  ELSE IF isPromisefn(cb)
  THEN OptOut(o, m,
              Append(hs, NewHandle("AsyncOption",
                                   [ok |-> TRUE, val |-> ApplySeq(cb.f, o[self].val)])),
              ARef(Len(hs) + 1),
              <<[cb |-> cb, arg |-> o[self].val, ret |-> PRef(0)]>>, "")
  ELSE LET r == InvokeO(o, cb, o[self].val)
       IN IF r.ret.t = "oref" THEN OptOut(r.opts, m, hs, r.ret, r.calls, "")
          ELSE OptOut(r.opts, m, hs, Undefined, r.calls,
                      ExpectedOptionError(r.ret))

\* AsyncOption.toResult(fallback):
\* AsyncResult.from(super.then(async (opt) => {
\*   if (opt.some) return Ok(opt.unwrap()); else return Err(await fallback); }))
\* a new AsyncResult and the reaction registered on the AsyncOption
AsyncOption_toResult(hs, ts, self, fallback) ==
  [handles |-> Append(hs, NewHandle("AsyncResult", NoWill)),
   tasks |-> Append(ts, [fn |-> "toResult", results |-> <<ARef(self)>>,
                         out |-> Len(hs) + 1, fallback |-> fallback]),
   ret |-> ARef(Len(hs) + 1)]

\* the reaction of toResult awaiting the fallback whatever the Option is
ToResultReaction_alwaysAwaits(o, m, hs, t) ==
  LET opt == o[hs[t.results[1].n].value.n]
      a == IF opt.some THEN OkFactory(m, opt.val) ELSE ErrFactory(m, t.fallback)
  IN IF t.fallback.t = "promise"
     THEN [mem |-> m, handles |-> hs,
           tasks |-> <<[t EXCEPT !.fn = "fallback", !.results = <<t.fallback>>]>>]
     ELSE [mem |-> a.mem, handles |-> Fulfil(hs, t.out, Ref(a.id), 0),
           tasks |-> <<>>]

\* the reaction of toResult with the Option the AsyncOption is fulfilled
\* with: Ok(opt.unwrap()) at once for a Some; for a None the await of the
\* fallback, which continues after the fallback when that is a Promise
ToResultReaction(o, m, hs, t) ==
  LET opt == o[hs[t.results[1].n].value.n]
      a == IF opt.some THEN OkFactory(m, opt.val) ELSE ErrFactory(m, t.fallback)
  IN IF ~opt.some /\ t.fallback.t = "promise"
     THEN [mem |-> m, handles |-> hs,
           tasks |-> <<[t EXCEPT !.fn = "fallback", !.results = <<t.fallback>>]>>]
     ELSE [mem |-> a.mem, handles |-> Fulfil(hs, t.out, Ref(a.id), 0),
           tasks |-> <<>>]

\* toResult after the await of a Promise fallback: return Err(awaited)
FallbackReaction(o, m, hs, t) ==
  LET a == ErrFactory(m, hs[t.results[1].n].value)
  IN [mem |-> a.mem, handles |-> Fulfil(hs, t.out, Ref(a.id), 0), tasks |-> <<>>]

(***************************************************************************)
(* SpecOption: the program holds an Option (Some(v) or None) and a second  *)
(* Option x, and makes one call: map, tap, try, or, lazyOr, unwrap or      *)
(* toResult on the Option, or toResult on an AsyncOption that will be      *)
(* fulfilled with it, the fallback being a plain value or a Promise that   *)
(* is fulfilled at any time, or never.                                     *)
(***************************************************************************)
OptionCallbacks == {CB(k, <<"inc">>, 0) : k \in {"mkSome", "const", "raw", "asyncFn"}}

\* the calls: op, the callback handed in, the plain argument
OptionCalls ==
  {[op |-> op, cb |-> cb, arg |-> Undefined] :
     op \in {"map", "tap"}, cb \in PlainCallbacks}
    \cup {[op |-> "try", cb |-> cb, arg |-> Undefined] : cb \in OptionCallbacks}
    \cup {[op |-> "lazyOr", cb |-> cb, arg |-> Undefined] :
            cb \in {c \in OptionCallbacks : c.k \in {"mkSome", "const"}}}
    \cup {[op |-> "or", cb |-> NoCallback, arg |-> Undefined]}
    \cup {[op |-> op, cb |-> NoCallback, arg |-> x] :
            op \in {"unwrap", "toResult"}, x \in Numbers}
    \cup {[op |-> "asyncToResult", cb |-> CB(k, <<>>, 0), arg |-> x] :
            k \in {"plain", "promise"}, x \in Numbers}

OptionInputs ==
  {[some |-> sm, val |-> v, other |-> x, call |-> c] :
     sm \in BOOLEAN, v \in Numbers, x \in Payloads, c \in OptionCalls}

\* the Option the call is made on, and the second Option x (None when
\* input.other is undefined)
Receiver == IF input.some THEN 2 ELSE 1

Other ==
  IF input.other = Undefined THEN ORef(1)
  ELSE ORef(IF input.some THEN 3 ELSE 2)

OptionInit ==
  /\ input \in OptionInputs
  /\ opts = <<NewNone>>
              \o (IF input.some THEN <<NewSome(input.val)>> ELSE <<>>)
              \o (IF input.other = Undefined THEN <<>> ELSE <<NewSome(input.other)>>)
  /\ heap = <<>>
  /\ stacks = <<>>
  /\ handles =
       IF input.call.op # "asyncToResult" THEN <<>>
       ELSE <<NewHandle("AsyncOption", [ok |-> input.some, val |-> input.val])>>
              \o (IF input.call.cb.k = "promise"
                  THEN <<NewHandle("Promise", Will(TRUE, input.call.arg, TRUE))>>
                  ELSE <<>>)
  /\ tasks = <<>>
  /\ last = Idle
  /\ pc = "call"
  /\ regs = [ret |-> Undefined]

\* the callback of the call, a const callback capturing the Option x
TheCallback ==
  IF input.call.cb.k = "const" THEN [input.call.cb EXCEPT !.id = Other.n]
  ELSE input.call.cb

\* one call on the Option, with outcome out
OptionCall(op, out) ==
  /\ pc = "call"
  /\ input.call.op = op
  /\ opts' = out.opts
  /\ heap' = out.mem.heap
  /\ stacks' = out.mem.stacks
  /\ handles' = out.handles
  /\ last' = Last(op, Receiver, TheCallback, input.call.arg, out, Len(opts))
  /\ regs' = [regs EXCEPT !.ret = out.ret]
  /\ pc' = "done"
  /\ UNCHANGED <<input, tasks>>

CallOptMap ==
  OptionCall("map", IF opts[Receiver].some
                    THEN Some_map(opts, Mem(heap, stacks), handles, Receiver,
                                  TheCallback)
                    ELSE None_map(opts, Mem(heap, stacks), handles, Receiver,
                                  TheCallback))

CallOptTap ==
  OptionCall("tap", IF opts[Receiver].some
                    THEN Some_tap(opts, Mem(heap, stacks), handles, Receiver,
                                  TheCallback)
                    ELSE None_tap(opts, Mem(heap, stacks), handles, Receiver,
                                  TheCallback))

CallOptTry ==
  OptionCall("try", AbstractOption_try(opts, Mem(heap, stacks), handles, Receiver,
                                       TheCallback))

CallOptOr ==
  OptionCall("or", IF opts[Receiver].some
                   THEN Some_or(opts, Mem(heap, stacks), handles, Receiver, Other)
                   ELSE None_or(opts, Mem(heap, stacks), handles, Receiver, Other))

CallOptLazyOr ==
  OptionCall("lazyOr", IF opts[Receiver].some
                       THEN Some_lazyOr(opts, Mem(heap, stacks), handles, Receiver,
                                        TheCallback)
                       ELSE None_lazyOr(opts, Mem(heap, stacks), handles, Receiver,
                                        TheCallback))

CallOptUnwrap ==
  OptionCall("unwrap", IF opts[Receiver].some
                       THEN Some_unwrap(opts, Mem(heap, stacks), handles, Receiver,
                                        input.call.arg)
                       ELSE None_unwrap(opts, Mem(heap, stacks), handles, Receiver,
                                        input.call.arg))

CallOptToResult ==
  OptionCall("toResult",
             IF opts[Receiver].some
             THEN Some_toResult(opts, Mem(heap, stacks), handles, Receiver,
                                input.call.arg)
             ELSE None_toResult(opts, Mem(heap, stacks), handles, Receiver,
                                input.call.arg))

\* h.toResult(fallback) on the AsyncOption h = handles[1]
CallAsyncToResult ==
  /\ pc = "call"
  /\ input.call.op = "asyncToResult"
  /\ LET fallback == IF input.call.cb.k = "promise" THEN PRef(2)
                     ELSE input.call.arg
         r == AsyncOption_toResult(handles, tasks, 1, fallback)
     IN /\ handles' = r.handles
        /\ tasks' = r.tasks
        /\ regs' = [regs EXCEPT !.ret = r.ret]
  /\ pc' = "done"
  /\ UNCHANGED <<opts, heap, stacks, last, input>>

\* a producer delivers: the Option of an AsyncOption (a new Some, or None)
\* or the value of the fallback Promise
OptDeliver ==
  \E h \in DOMAIN handles :
    /\ handles[h].state = "pending"
    /\ handles[h].will # NoWill
    /\ LET w == handles[h].will
       IN IF handles[h].cls = "Promise"
          THEN /\ handles' = Fulfil(handles, h, w.val, 0)
               /\ opts' = opts
          ELSE IF w.ok
          THEN /\ opts' = Append(opts, NewSome(w.val))
               /\ handles' = Fulfil(handles, h, ORef(Len(opts) + 1), 0)
          ELSE /\ opts' = opts
               /\ handles' = Fulfil(handles, h, ORef(1), 0)
    /\ UNCHANGED <<heap, stacks, last, progVars, tasks>>

\* the reaction of toResult runs, the AsyncOption being fulfilled
ToResultThen ==
  /\ tasks # <<>>
  /\ tasks[1].fn = "toResult"
  /\ handles[tasks[1].results[1].n].state = "fulfilled"
  /\ LET r == ToResultReaction(opts, Mem(heap, stacks), handles, tasks[1])
     IN /\ heap' = r.mem.heap
        /\ stacks' = r.mem.stacks
        /\ handles' = r.handles
        /\ tasks' = r.tasks
  /\ UNCHANGED <<opts, last, progVars>>

\* toResult continues after the fallback Promise is fulfilled
FallbackThen ==
  /\ tasks # <<>>
  /\ tasks[1].fn = "fallback"
  /\ handles[tasks[1].results[1].n].state = "fulfilled"
  /\ LET r == FallbackReaction(opts, Mem(heap, stacks), handles, tasks[1])
     IN /\ heap' = r.mem.heap
        /\ stacks' = r.mem.stacks
        /\ handles' = r.handles
        /\ tasks' = r.tasks
  /\ UNCHANGED <<opts, last, progVars>>

OptionNext ==
  \/ CallOptMap
  \/ CallOptTap
  \/ CallOptTry
  \/ CallOptOr
  \/ CallOptLazyOr
  \/ CallOptUnwrap
  \/ CallOptToResult
  \/ CallAsyncToResult
  \/ OptDeliver
  \/ ToResultThen
  \/ FallbackThen

SpecOption == OptionInit /\ [][OptionNext]_vars

\* the AsyncResult returned by AsyncOption.toResult is fulfilled
ToResultDone ==
  /\ input.call.op = "asyncToResult"
  /\ regs.ret # Undefined
  /\ IsFulfilled(regs.ret.n)

\* C22: Some(v).toResult(fallback) is Ok(v) and None.toResult(fallback) is
\* Err(fallback); toResult on an AsyncOption returns an AsyncResult that is
\* fulfilled with Ok(v) when the AsyncOption is fulfilled with Some(v) and
\* with Err of the fallback's value when it is fulfilled with None, and the
\* fallback is awaited only for None.
C22_OptionToResult ==
  /\ last.op = "toResult" =>
       /\ last.ret.t = "ref"
       /\ heap[last.ret.n].ok = input.some
       /\ heap[last.ret.n].val = (IF input.some THEN input.val ELSE input.call.arg)
  /\ (input.call.op = "asyncToResult" /\ regs.ret # Undefined) =>
       /\ regs.ret.t = "async"
       /\ handles[regs.ret.n].cls = "AsyncResult"
       /\ \A k \in 1 .. Len(tasks) : tasks[k].fn = "fallback" => ~input.some
  /\ ToResultDone =>
       /\ IsFulfilled(1)
       /\ Resolved(regs.ret.n).ok = input.some
       /\ Resolved(regs.ret.n).val
            = (IF input.some THEN input.val ELSE input.call.arg)
       /\ (~input.some /\ input.call.cb.k = "promise") => IsFulfilled(2)

\* toResult on an AsyncOption fulfilled with a Some has given its Ok while
\* the fallback Promise is still pending
C22_Witness ==
  /\ ToResultDone
  /\ input.some
  /\ input.call.cb.k = "promise"
  /\ handles[2].state = "pending"

\* C23: on None, map, tap and try with a synchronous callback return None
\* without invoking the callback, or(x) returns x, lazyOr(fn) returns what
\* fn() returned and unwrap(fb) returns fb; on Some(v), or and lazyOr
\* return the receiver without invoking the callback, map(f) returns a
\* Some of f(v), and try(f) returns the very Option f returned.
C23_OptionShortCircuit ==
  LET none == ~input.some
      self == ORef(last.recv)
  IN /\ (none /\ last.op \in {"map", "tap"}) =>
          last.ret = self /\ opts[last.ret.n].none /\ last.calls = <<>>
     /\ (none /\ last.op = "try" /\ ~isPromisefn(last.cb)) =>
          last.ret = self /\ opts[last.ret.n].none /\ last.calls = <<>>
     /\ (none /\ last.op = "or") => last.ret = Other
     /\ (none /\ last.op = "lazyOr") =>
          Len(last.calls) = 1 /\ last.ret = last.calls[1].ret
     /\ (none /\ last.op = "unwrap") => last.ret = input.call.arg
     /\ (input.some /\ last.op \in {"or", "lazyOr"}) =>
          last.ret = self /\ opts[last.ret.n].some /\ last.calls = <<>>
     /\ (input.some /\ last.op = "map") =>
          /\ last.ret.t = "oref"
          /\ opts[last.ret.n].some
          /\ opts[last.ret.n].val = ApplyPrim(last.cb.f[1], input.val)
          /\ last.calls = <<[cb |-> last.cb, arg |-> input.val]>>
     /\ (input.some /\ last.op = "try" /\ last.cb.k \in {"mkSome", "const"}) =>
          /\ Len(last.calls) = 1
          /\ last.calls[1].arg = input.val
          /\ last.ret = last.calls[1].ret
          /\ last.threw = ""

\* Some(v).try(f) has returned the Option x that f captured
C23_Witness ==
  /\ last.op = "try"
  /\ input.some
  /\ last.cb.k = "const"
  /\ last.ret = Other

(***************************************************************************)
(* SpecTwin: two Errs a and b with the same payload, a without trace and b *)
(* with one, and a third Result c to hand to or.  The program runs one     *)
(* script of method calls on both: each call is made on a and on b, and    *)
(* the next call on what these returned.                                   *)
(***************************************************************************)
MaxSteps == 2

\* the calls of a script: the method, its callback, its plain argument
TwinCalls ==
  {[op |-> op, cb |-> Fn("inc"), arg |-> Undefined] :
     op \in {"map", "mapErr", "tap", "tapErr"}}
    \cup {[op |-> op, cb |-> CB(k, <<"inc">>, 0), arg |-> Undefined] :
            op \in {"try", "tryRecover"}, k \in {"mkOk", "mkErr", "raw"}}
    \cup {[op |-> "lazyOr", cb |-> CB(k, <<"inc">>, 0), arg |-> Undefined] :
            k \in {"mkOk", "mkErr"}}
    \cup {[op |-> op, cb |-> NoCallback, arg |-> Num(1)] :
            op \in {"replace", "replaceErr"}}
    \cup {[op |-> "or", cb |-> NoCallback, arg |-> Ref(3)],
          [op |-> "trace", cb |-> NoCallback, arg |-> Undefined]}

TwinInputs ==
  [val : Numbers, trace : {<<[id |-> "t1"]>>, <<[id |-> "t1"], [id |-> "t2"]>>},
   script : UNION {[1 .. n -> TwinCalls] : n \in 1 .. MaxSteps}]

TwinInit ==
  /\ input \in TwinInputs
  /\ LET a == AllocErr(Mem(<<>>, <<>>), input.val)
         b == AllocErrTraced(a.mem, input.val, input.trace)
         c == AllocOk(b.mem, Num(0))
     IN heap = c.mem.heap /\ stacks = c.mem.stacks
  /\ opts = <<NewNone>>
  /\ last = Idle
  /\ pc = "calls"
  /\ regs = [a |-> 1, b |-> 2, outs |-> <<>>]
  /\ handles = <<>>
  /\ tasks = <<>>

\* what the caller sees of a call: whether it threw, the case and payload
\* of the Result returned, and the arguments its callback was invoked with
Seen(out) ==
  [threw |-> out.threw,
   ok |-> IF out.threw = "" THEN out.mem.heap[out.ret.n].ok ELSE FALSE,
   val |-> IF out.threw = "" THEN out.mem.heap[out.ret.n].val ELSE Undefined,
   args |-> [k \in 1 .. Len(out.calls) |-> out.calls[k].arg]]

\* the method c.op called on heap[self]
TwinDispatch(m, self, c) ==
  CASE c.op = "map" -> Call_map(m, self, c.cb)
    [] c.op = "mapErr" -> Call_mapErr(m, self, c.cb)
    [] c.op = "tap" -> Call_tap(m, self, c.cb)
    [] c.op = "tapErr" -> Call_tapErr(m, self, c.cb)
    [] c.op = "try" -> AbstractResult_try(m, self, c.cb)
    [] c.op = "tryRecover" -> AbstractResult_tryRecover(m, self, c.cb)
    [] c.op = "lazyOr" -> Call_lazyOr(m, self, c.cb)
    [] c.op = "replace" -> Call_replace(m, self, c.arg)
    [] c.op = "replaceErr" -> Call_replaceErr(m, self, c.arg)
    [] c.op = "or" -> Call_or(m, self, c.arg)
    [] c.op = "trace" -> Call_trace(m, self, "t2")

\* the next call of the script, on a and then on b; the script ends when a
\* call throws
TwinCall(ops) ==
  /\ pc = "calls"
  /\ LET c == input.script[Len(regs.outs) + 1]
         ra == TwinDispatch(Mem(heap, stacks), regs.a, c)
         rb == TwinDispatch(ra.mem, regs.b, c)
         threw == ra.threw # "" \/ rb.threw # ""
     IN /\ c.op \in ops
        /\ heap' = rb.mem.heap
        /\ stacks' = rb.mem.stacks
        /\ regs' = [a |-> IF threw THEN regs.a ELSE ra.ret.n,
                    b |-> IF threw THEN regs.b ELSE rb.ret.n,
                    outs |-> Append(regs.outs, [a |-> Seen(ra), b |-> Seen(rb)])]
        /\ pc' = IF threw \/ Len(regs.outs) + 1 = Len(input.script)
                 THEN "done" ELSE "calls"
  /\ UNCHANGED <<opts, last, input, asyncVars>>

TwinMap == TwinCall({"map", "mapErr"})

TwinTap == TwinCall({"tap", "tapErr"})

TwinTry == TwinCall({"try", "tryRecover"})

TwinOr == TwinCall({"or", "lazyOr"})

TwinReplace == TwinCall({"replace", "replaceErr"})

TwinTrace == TwinCall({"trace"})

TwinNext ==
  \/ TwinMap
  \/ TwinTap
  \/ TwinTry
  \/ TwinOr
  \/ TwinReplace
  \/ TwinTrace

SpecTwin == TwinInit /\ [][TwinNext]_vars

\* C24: two Results that differ only in their trace, put through the same
\* sequence of calls, show at every step the same case and payload, invoke
\* their callbacks with the same arguments and throw alike.
C24_TraceNotControlFlow ==
  /\ \A k \in 1 .. Len(regs.outs) : regs.outs[k].a = regs.outs[k].b
  /\ heap[regs.a].ok = heap[regs.b].ok
  /\ heap[regs.a].val = heap[regs.b].val

\* a script of MaxSteps calls has run, a callback was invoked in its last
\* call, and the two Errs it ends with still differ in their trace
C24_Witness ==
  /\ pc = "done"
  /\ Len(regs.outs) = MaxSteps
  /\ regs.outs[MaxSteps].a.args # <<>>
  /\ heap[regs.a].err
  /\ stacks[heap[regs.a].stack] # stacks[heap[regs.b].stack]

====
